---- MODULE Spec2Model ----
(***************************************************************************)
(* Audio pipeline of the perception engine: the capture buffers and the    *)
(* speech segmenter of AudioCaptureEngine, and the transcription queue of  *)
(* AsyncWhisperQueue with its worker thread.                                *)
(*                                                                         *)
(* A sample is modelled by its position in the microphone stream (1, 2,    *)
(* ...), so that loss, duplication and reordering of samples are visible.  *)
(* Sample counts are scaled: SAMPLE_RATE is 10 samples per second here     *)
(* (16000 in the code), so one model sample stands for 100 ms of audio;    *)
(* the sample-count thresholds are computed from it as the code computes   *)
(* them.                                                                   *)
(***************************************************************************)
EXTENDS Naturals, Sequences, FiniteSets, TLC

\* ---------------------------------------------------------------------------
\* Configuration (AudioCaptureEngine.h 123-149, AudioCaptureEngine.cpp 489-497)
\* ---------------------------------------------------------------------------

\* Samples per second (scaled; 16000 in the code).
SAMPLE_RATE == 10

\* Length of the classifier window in ms (scaled so that the window is one
\* sample at the scaled rate; 32 in the code).
VAD_CHUNK_MS == 100

\* Seconds of audio the capture buffer keeps (scaled; 30 in the code).
MAX_BUFFER_SEC == 2

\* Longest utterance in seconds (scaled; 30 in the code).
MAX_SPEECH_SEC == 2

SILENCE_THRESHOLD_MS == 300

MIN_SPEECH_MS == 300

MAX_BUFFER_SAMPLES == SAMPLE_RATE * MAX_BUFFER_SEC

VAD_WINDOW_SAMPLES == (SAMPLE_RATE * VAD_CHUNK_MS) \div 1000

SILENCE_THRESHOLD_SAMPLES == (SAMPLE_RATE * SILENCE_THRESHOLD_MS) \div 1000

MIN_SPEECH_SAMPLES == (SAMPLE_RATE * MIN_SPEECH_MS) \div 1000

MAX_SPEECH_SAMPLES == SAMPLE_RATE * MAX_SPEECH_SEC

\* ---------------------------------------------------------------------------
\* Bounds of the model
\* ---------------------------------------------------------------------------

\* Packets the microphone capture thread delivers in one run.
MaxPackets == 3

\* Utterances the segmenter hands to the queue in one run of the queue.
MaxJobs == 3

\* The longest vector ResampleAudio is called with.
MaxFrames == 4

\* Packets the system-audio capture thread delivers in one run.
MaxSysPackets == 1

\* Sizes (in samples) of the packets a capture thread delivers: a single
\* sample, a few samples, enough silence to end an utterance, and a packet
\* that alone overflows the capture buffer.
PacketSizes == {1, 2, SILENCE_THRESHOLD_SAMPLES, MAX_BUFFER_SAMPLES + 1}

\* Sizes of the packets of the system-audio capture thread.
SysPacketSizes == {1, MAX_BUFFER_SAMPLES + 1}

\* ---------------------------------------------------------------------------
\* Sequences of samples (std::vector<float>)
\* ---------------------------------------------------------------------------

\* The samples a .. b of a stream, in order (empty when b < a).
Range(a, b) == [i \in 1..((b + 1) - a) |-> (a + i) - 1]

\* std::vector::erase(begin() + first, begin() + last).
Erase(v, first, last) ==
    [i \in 1..(Len(v) - (last - first)) |->
        IF i <= first THEN v[i] ELSE v[i + (last - first)]]

VARIABLES
    \* AudioCaptureEngine: lifecycle
    isRunning,              \* std::atomic<bool> isRunning
    epc,                    \* position of the thread that calls Start / Stop
    useSimpleVAD,           \* bool useSimpleVAD
    sileroVAD,              \* std::unique_ptr<SileroVAD>: "null", "failed"
                            \* (created, no model loaded) or "loaded"
    variantsUsed,           \* history: classifier variants IsSpeechDetected ran
    state,                  \* SileroVAD::state: the utterances whose windows it has absorbed since it was zeroed
    mpc,                    \* microphone capture thread
    \* AudioCaptureEngine: capture buffers
    microphoneBuffer,       \* std::vector<float> microphoneBuffer
    micBufferMutex,         \* holder of micBufferMutex, or "free"
    produced,               \* samples delivered by the microphone so far
    packets,                \* packets delivered by the microphone so far
    evicted,                \* history: some sample was evicted by an overflow
    pace,                   \* history: "fresh" when a scenario block awaits its
                            \* tick, "seen" when every block had its own tick,
                            \* "late" once a block arrived before the previous
                            \* block's tick had finished
    systemAudioClient,      \* TRUE iff system-audio capture was initialized
    xpc,                    \* system-audio capture thread
    systemAudioBuffer,      \* std::vector<float> systemAudioBuffer
    systemAudioBufferMutex, \* holder of systemAudioBufferMutex, or "free"
    sysProduced,            \* samples delivered by the system-audio source
    sysPackets,             \* packets delivered by the system-audio source
    \* AudioCaptureEngine::ProcessingThread (the segmenter)
    spc,                    \* position of the segmenter thread
    micBuffer,              \* local snapshot of the capture buffer
    currentState,           \* "SILENCE" or "SPEAKING"
    speechBuffer,           \* the utterance being accumulated
    silenceDurationSamples,
    speechDurationSamples,
    runTotal,               \* history: samples of the snapshots of this run
    runs,                   \* history: totals of the runs that have ended
    queued,                 \* history: utterances handed to QueueAudio
    \* AsyncWhisperQueue
    audioQueue,             \* std::queue<std::vector<float>> audioQueue
    audioQueueMutex,        \* holder of audioQueueMutex, or "free"
    running,                \* std::atomic<bool> running
    processing,             \* std::atomic<bool> processing
    wpc,                    \* position of the worker thread
    audioToProcess,         \* the worker's local copy of the job
    transcription,          \* the worker's local result
    observedStop,           \* history: the worker has read running == false
    queuedAtExit,           \* history: the jobs enqueued before the worker exited
    inWhisper,              \* history: threads inside a transcription call
    dequeued,               \* history: jobs taken off the pending FIFO
    transcribed,            \* history: finished transcription calls
    resultsQueue,           \* std::queue<std::string> resultsQueue
    resultsQueueMutex,      \* holder of resultsQueueMutex, or "free"
    processedCount,         \* std::atomic<size_t> processedCount
    \* The thread that polls GetLatestUserSpeech
    ppc,                    \* position of the polling thread
    result,                 \* its local result of GetLatestResult
    latestUserSpeech,       \* std::string latestUserSpeech
    userSpeech,             \* what the last GetLatestUserSpeech call returned
    rpc,                    \* position of a ResampleAudio call
    input,                  \* ResampleAudio: const std::vector<float>& input
    inputSampleRate,        \* ResampleAudio: int inputSampleRate
    outputSampleRate,       \* ResampleAudio: int outputSampleRate
    output,                 \* ResampleAudio: the vector returned
    returned,               \* history: non-empty results of GetLatestResult
    callbacks,              \* history: the arguments of the transcriptionCallback calls
    \* Another thread that calls GetLatestResult
    cpc,                    \* its position
    cresult,                \* its local result
    \* The thread that destroys the queue
    dpc,
    \* A call of IsSpeechDetected (neural variant) or of SileroVAD::Process
    vpc,                    \* position of the caller
    audioChunkSize,         \* IsSpeechDetected: audioChunk.size()
    offset,                 \* IsSpeechDetected: the loop index
    maxProbability,         \* IsSpeechDetected: float maxProbability, in percent
    detected,               \* IsSpeechDetected: the value returned (isSpeech)
    probability,            \* what the last SileroVAD::Process call returned, in percent
    call,                   \* history: the last call made on the classifier
    scored,                 \* history: the Process calls of this IsSpeechDetected call
    processCalls,           \* history: the number of Process calls so far
    \* The threads Start creates and the callers of Start and Stop
    threads,                \* history: the live threads of each kind
    calls                   \* history: the Start and Stop calls made so far

vars == <<isRunning, epc, useSimpleVAD, sileroVAD, variantsUsed, state, mpc, microphoneBuffer, micBufferMutex, produced,
          packets, evicted, pace, systemAudioClient, xpc, systemAudioBuffer,
          systemAudioBufferMutex, sysProduced, sysPackets, spc, micBuffer, currentState, speechBuffer,
          silenceDurationSamples, speechDurationSamples, runTotal, runs,
          queued, audioQueue, audioQueueMutex, running, processing, wpc,
          audioToProcess, transcription, observedStop, queuedAtExit, inWhisper, dequeued,
          transcribed, resultsQueue, resultsQueueMutex, processedCount, ppc,
          result, latestUserSpeech, userSpeech, returned, callbacks, cpc, cresult, dpc,
          rpc, input, inputSampleRate, outputSampleRate, output, vpc,
          audioChunkSize, offset, maxProbability, detected, probability, call,
          scored, processCalls, threads, calls>>

lifeVars == <<isRunning, epc, useSimpleVAD, sileroVAD, threads, calls>>
micVars == <<microphoneBuffer, micBufferMutex, produced, packets, evicted,
             pace>>
sysVars == <<systemAudioClient, xpc, systemAudioBuffer, systemAudioBufferMutex,
             sysProduced, sysPackets>>
captureVars == <<micVars, sysVars>>
segLocals == <<micBuffer, currentState, speechBuffer, silenceDurationSamples,
               speechDurationSamples, runTotal, runs, variantsUsed,
               state>>
wkVars == <<running, processing, wpc, audioToProcess, transcription,
            observedStop, queuedAtExit, inWhisper, dequeued, transcribed>>
rsVars == <<resultsQueue, resultsQueueMutex, processedCount>>
plVars == <<ppc, result, latestUserSpeech, userSpeech, returned, callbacks, cpc,
            cresult>>
queueVars == <<audioQueue, audioQueueMutex, wkVars, rsVars, plVars, dpc>>
resampleVars == <<rpc, input, inputSampleRate, outputSampleRate, output>>
vadVars == <<vpc, audioChunkSize, offset, maxProbability, detected, probability,
             call, scored, processCalls>>
engineVars == <<lifeVars, resampleVars, vadVars, mpc, captureVars, spc, segLocals,
                queued>>

\* The empty string.
NoText == <<>>

\* No thread has been created and neither Start nor Stop has been called.
NoThreads == [mic |-> 0, sys |-> 0, seg |-> 0]
NotStarted == threads = NoThreads /\ calls = <<>>

\* No call on the classifier has been made: SileroVAD::state is all zeros.
VadIdle ==
    /\ vpc = "v_idle"
    /\ audioChunkSize = 0
    /\ offset = 0
    /\ maxProbability = 0
    /\ detected = FALSE
    /\ probability = 0
    /\ call = [op |-> "none"]
    /\ scored = <<>>
    /\ processCalls = 0

\* No ResampleAudio call is being looked at.
ResampleIdle ==
    /\ rpc = "r_idle"
    /\ input = <<>>
    /\ inputSampleRate = SAMPLE_RATE
    /\ outputSampleRate = SAMPLE_RATE
    /\ output = <<>>

\* ---------------------------------------------------------------------------
\* Init: the engine after construction and Initialize(), not yet started
\* ---------------------------------------------------------------------------
Init ==
    /\ isRunning = FALSE
    /\ epc = "initialized"
    /\ useSimpleVAD = FALSE
    /\ sileroVAD = "loaded"
    /\ variantsUsed = {}
    /\ state = {}
    /\ mpc = "m_off"
    /\ microphoneBuffer = <<>>
    /\ micBufferMutex = "free"
    /\ produced = 0
    /\ packets = 0
    /\ evicted = FALSE
    /\ pace = "seen"
    /\ systemAudioClient \in BOOLEAN
    /\ xpc = "x_off"
    /\ systemAudioBuffer = <<>>
    /\ systemAudioBufferMutex = "free"
    /\ sysProduced = 0
    /\ sysPackets = 0
    /\ spc = "s_off"
    /\ micBuffer = <<>>
    /\ currentState = "SILENCE"
    /\ speechBuffer = <<>>
    /\ silenceDurationSamples = 0
    /\ speechDurationSamples = 0
    /\ runTotal = 0
    /\ runs = <<>>
    /\ queued = <<>>
    /\ audioQueue = <<>>
    /\ audioQueueMutex = "free"
    /\ running = TRUE
    /\ processing = FALSE
    /\ wpc = "w_loop"
    /\ audioToProcess = <<>>
    /\ transcription = NoText
    /\ observedStop = FALSE
    /\ queuedAtExit = <<>>
    /\ inWhisper = {}
    /\ dequeued = <<>>
    /\ transcribed = <<>>
    /\ resultsQueue = <<>>
    /\ resultsQueueMutex = "free"
    /\ processedCount = 0
    /\ ppc = "p_idle"
    /\ result = NoText
    /\ latestUserSpeech = NoText
    /\ userSpeech = NoText
    /\ returned = <<>>
    /\ callbacks = <<>>
    /\ cpc = "c_idle"
    /\ cresult = NoText
    /\ dpc = "d_alive"
    /\ ResampleIdle
    /\ VadIdle
    /\ NotStarted

\* ---------------------------------------------------------------------------
\* AudioCaptureEngine::Start / Stop
\* ---------------------------------------------------------------------------
\* The threads after Start has created its threads: one for the microphone,
\* one for the system audio when its client exists, one segmenter.
Spawned(t) ==
    [mic |-> t.mic + 1,
     sys |-> IF systemAudioClient THEN t.sys + 1 ELSE t.sys,
     seg |-> t.seg + 1]

Start ==
    /\ epc = "initialized"
    /\ ~isRunning
    /\ isRunning' = TRUE
    /\ epc' = "started"
    /\ mpc' = "m_loop"
    /\ xpc' = IF systemAudioClient THEN "x_loop" ELSE xpc
    /\ spc' = "s_loop"
    /\ threads' = Spawned(threads)
    /\ calls' = Append(calls, [op |-> "Start", result |-> "true"])
    /\ UNCHANGED <<resampleVars, vadVars, useSimpleVAD, sileroVAD, micVars, systemAudioClient,
                   systemAudioBuffer,
                   systemAudioBufferMutex, sysProduced, sysPackets, segLocals,
                   queued, queueVars>>

\* The most Start and Stop calls looked at after the first Start.
MaxCalls == 4

\* A variant of Start without the isRunning check: called on a running
\* engine it creates its threads again.
StartRunningSpawns ==
    /\ epc = "started"
    /\ isRunning
    /\ Len(calls) < MaxCalls
    /\ threads' = Spawned(threads)
    /\ calls' = Append(calls, [op |-> "Start", result |-> "true"])
    /\ UNCHANGED <<isRunning, epc, useSimpleVAD, sileroVAD, resampleVars, vadVars, mpc,
                   captureVars, spc, segLocals, queued, queueVars>>

\* Start() on a running engine: "already running", return true.
StartRunning ==
    /\ epc = "started"
    /\ isRunning
    /\ Len(calls) < MaxCalls
    /\ calls' = Append(calls, [op |-> "Start", result |-> "true"])
    /\ UNCHANGED <<isRunning, epc, useSimpleVAD, sileroVAD, threads, resampleVars,
                   vadVars, mpc, captureVars, spc, segLocals, queued, queueVars>>

\* Start() when microphoneClient->Start() fails: return false, nothing is
\* started.
StartFails ==
    /\ epc \in {"initialized", "stopped"}
    /\ ~isRunning
    /\ Len(calls) < MaxCalls
    /\ calls' = Append(calls, [op |-> "Start", result |-> "false"])
    /\ UNCHANGED <<isRunning, epc, useSimpleVAD, sileroVAD, threads, resampleVars,
                   vadVars, mpc, captureVars, spc, segLocals, queued, queueVars>>

\* Start() on an engine that Stop() has stopped: new threads, and the new
\* ProcessingThread starts with fresh locals.
StartAgain ==
    /\ epc = "stopped"
    /\ ~isRunning
    /\ Len(calls) < MaxCalls
    /\ isRunning' = TRUE
    /\ epc' = "started"
    /\ mpc' = "m_loop"
    /\ xpc' = IF systemAudioClient THEN "x_loop" ELSE xpc
    /\ spc' = "s_loop"
    /\ micBuffer' = <<>>
    /\ currentState' = "SILENCE"
    /\ speechBuffer' = <<>>
    /\ silenceDurationSamples' = 0
    /\ speechDurationSamples' = 0
    /\ runTotal' = 0
    /\ threads' = Spawned(threads)
    /\ calls' = Append(calls, [op |-> "Start", result |-> "true"])
    /\ UNCHANGED <<resampleVars, vadVars, useSimpleVAD, sileroVAD, micVars, systemAudioClient,
                   systemAudioBuffer, systemAudioBufferMutex, sysProduced,
                   sysPackets, runs, variantsUsed, state, queued, queueVars>>

\* Stop() on an engine that is not running: return at once.
StopStopped ==
    /\ epc \in {"initialized", "stopped"}
    /\ ~isRunning
    /\ Len(calls) < MaxCalls
    /\ calls' = Append(calls, [op |-> "Stop", result |-> "void"])
    /\ UNCHANGED <<isRunning, epc, useSimpleVAD, sileroVAD, threads, resampleVars,
                   vadVars, mpc, captureVars, spc, segLocals, queued, queueVars>>

\* Stop(): isRunning.store(false)
StopSignal ==
    /\ epc = "started"
    /\ isRunning
    /\ isRunning' = FALSE
    /\ epc' = "join_mic"
    /\ calls' = Append(calls, [op |-> "Stop", result |-> "void"])
    /\ UNCHANGED <<resampleVars, vadVars, threads, useSimpleVAD, sileroVAD, mpc, captureVars, spc, segLocals,
                   queued, queueVars>>

\* Stop(): micThreadPtr->join()
StopJoinMic ==
    /\ epc = "join_mic"
    /\ mpc = "m_exited"
    /\ epc' = "join_sys"
    /\ UNCHANGED <<resampleVars, vadVars, threads, calls, isRunning, useSimpleVAD, sileroVAD, mpc, captureVars, spc,
                   segLocals, queued, queueVars>>

\* Stop(): systemAudioThreadPtr->join(), when the thread was created
StopJoinSys ==
    /\ epc = "join_sys"
    /\ systemAudioClient => xpc = "x_exited"
    /\ epc' = "join_processing"
    /\ UNCHANGED <<resampleVars, vadVars, threads, calls, isRunning, useSimpleVAD, sileroVAD, mpc, captureVars, spc,
                   segLocals, queued, queueVars>>

\* Stop(): processingThreadPtr->join()
StopJoinProcessing ==
    /\ epc = "join_processing"
    /\ spc = "s_exited"
    /\ epc' = "stopped"
    /\ UNCHANGED <<resampleVars, vadVars, threads, calls, isRunning, useSimpleVAD, sileroVAD, mpc, captureVars, spc,
                   segLocals, queued, queueVars>>

\* ---------------------------------------------------------------------------
\* Capture buffer: AddMicrophoneData, GetMicrophoneBuffer
\* ---------------------------------------------------------------------------

\* A variant that erases one sample too few.
EvictOverflowOffByOne(buf) ==
    IF Len(buf) > MAX_BUFFER_SAMPLES + 1
    THEN Erase(buf, 0, (Len(buf) - MAX_BUFFER_SAMPLES) - 1)
    ELSE buf

\* A variant that erases the excess at the end, keeping the oldest samples.
EvictOverflowNewest(buf) ==
    IF Len(buf) > MAX_BUFFER_SAMPLES
    THEN Erase(buf, MAX_BUFFER_SAMPLES, Len(buf))
    ELSE buf

\* The overflow branch of AddMicrophoneData / AddSystemAudioData.
EvictOverflow(buf) ==
    IF Len(buf) > MAX_BUFFER_SAMPLES
    THEN Erase(buf, 0, Len(buf) - MAX_BUFFER_SAMPLES)
    ELSE buf

\* A variant of the append that inserts the packet at the front.
AddMicrophoneData_InsertFront(n) ==
    /\ mpc = "m_loop"
    /\ packets < MaxPackets
    /\ micBufferMutex = "free"
    /\ micBufferMutex' = "capture"
    /\ microphoneBuffer' = Range(produced + 1, produced + n) \o microphoneBuffer
    /\ produced' = produced + n
    /\ packets' = packets + 1
    /\ mpc' = "m_insert"
    /\ UNCHANGED <<lifeVars, resampleVars, vadVars, evicted, pace, sysVars, spc, segLocals, queued,
                   queueVars>>

\* MicrophoneCaptureThread delivers a packet of n samples: AddMicrophoneData
\* takes micBufferMutex and inserts the samples at the end.
AddMicrophoneData_Insert(n) ==
    /\ mpc = "m_loop"
    /\ packets < MaxPackets
    /\ micBufferMutex = "free"
    /\ micBufferMutex' = "capture"
    /\ microphoneBuffer' = microphoneBuffer \o Range(produced + 1, produced + n)
    /\ produced' = produced + n
    /\ packets' = packets + 1
    /\ mpc' = "m_insert"
    /\ UNCHANGED <<lifeVars, resampleVars, vadVars, evicted, pace, sysVars, spc, segLocals, queued,
                   queueVars>>

\* AddMicrophoneData, still holding the mutex: evicts the excess and returns.
AddMicrophoneData_Evict ==
    /\ mpc = "m_insert"
    /\ micBufferMutex = "capture"
    /\ microphoneBuffer' = EvictOverflow(microphoneBuffer)
    /\ evicted' = (evicted \/ Len(microphoneBuffer) > MAX_BUFFER_SAMPLES)
    /\ micBufferMutex' = "free"
    /\ mpc' = "m_loop"
    /\ UNCHANGED <<lifeVars, resampleVars, vadVars, produced, packets, pace, sysVars, spc, segLocals,
                   queued, queueVars>>

\* MicrophoneCaptureThread: while (isRunning.load()) fails.
MicThreadExit ==
    /\ mpc = "m_loop"
    /\ ~isRunning
    /\ mpc' = "m_exited"
    /\ threads' = [threads EXCEPT !.mic = @ - 1]
    /\ UNCHANGED <<isRunning, epc, useSimpleVAD, sileroVAD, calls, resampleVars, vadVars, captureVars, spc, segLocals, queued, queueVars>>

\* SystemAudioCaptureThread delivers a packet: AddSystemAudioData takes
\* systemAudioBufferMutex and inserts the samples at the end.
AddSystemAudioData_Insert(n) ==
    /\ xpc = "x_loop"
    /\ sysPackets < MaxSysPackets
    /\ systemAudioBufferMutex = "free"
    /\ systemAudioBufferMutex' = "capture"
    /\ systemAudioBuffer' = systemAudioBuffer \o Range(sysProduced + 1, sysProduced + n)
    /\ sysProduced' = sysProduced + n
    /\ sysPackets' = sysPackets + 1
    /\ xpc' = "x_insert"
    /\ UNCHANGED <<lifeVars, resampleVars, vadVars, mpc, micVars, systemAudioClient, spc, segLocals,
                   queued, queueVars>>

\* AddSystemAudioData, still holding the mutex: evicts the excess and returns.
AddSystemAudioData_Evict ==
    /\ xpc = "x_insert"
    /\ systemAudioBufferMutex = "capture"
    /\ systemAudioBuffer' = EvictOverflow(systemAudioBuffer)
    /\ systemAudioBufferMutex' = "free"
    /\ xpc' = "x_loop"
    /\ UNCHANGED <<lifeVars, resampleVars, vadVars, mpc, micVars, systemAudioClient, sysProduced,
                   sysPackets, spc, segLocals, queued, queueVars>>

\* SystemAudioCaptureThread: while (isRunning.load()) fails.
SysThreadExit ==
    /\ xpc = "x_loop"
    /\ ~isRunning
    /\ xpc' = "x_exited"
    /\ threads' = [threads EXCEPT !.sys = @ - 1]
    /\ UNCHANGED <<isRunning, epc, useSimpleVAD, sileroVAD, calls, resampleVars, vadVars, mpc, micVars, systemAudioClient, systemAudioBuffer,
                   systemAudioBufferMutex, sysProduced, sysPackets, spc,
                   segLocals, queued, queueVars>>

\* ---------------------------------------------------------------------------
\* std::condition_variable cv
\* ---------------------------------------------------------------------------

\* The position of the worker after a notify on cv: a thread blocked in
\* cv.wait becomes runnable (it still has to take the mutex again); a thread
\* that is not waiting is not affected.
Notified(pc) == IF pc = "w_blocked" THEN "w_woken" ELSE pc

\* ---------------------------------------------------------------------------
\* AudioCaptureEngine::ProcessingThread
\* ---------------------------------------------------------------------------

\* A variant of the selection that runs the neural classifier whenever the
\* object exists, whether its model was loaded or not.
VariantRetried == IF sileroVAD # "null" THEN "neural" ELSE "energy"

\* The classifier variant an IsSpeechDetected call runs:
\* if (!useSimpleVAD && sileroVAD) the neural one, else the energy one.
Variant == IF ~useSimpleVAD /\ sileroVAD # "null" THEN "neural" ELSE "energy"

\* SileroVAD::Process as IsSpeechDetected calls it: the neural variant feeds
\* the window through the model, which overwrites state with a value that
\* depends on the old state and on the window; the window belongs to the
\* utterance that the next finalization will close.  The energy variant does
\* not touch the neural classifier.  Nothing in the engine calls
\* SileroVAD::Reset, so no action empties state.
Process == IF Variant = "neural" THEN state \cup {Len(runs) + 1} ELSE state

\* The latest classifier window of a snapshot.
VadWindow(buf) == SubSeq(buf, (Len(buf) - VAD_WINDOW_SAMPLES) + 1, Len(buf))

\* A variant that ends the utterance on the first silent window.
SilenceEndsAtOnce(silence) == silence >= VAD_WINDOW_SAMPLES

SilenceEnds(silence) == silence >= SILENCE_THRESHOLD_SAMPLES

MaxReached(buf) == Len(buf) >= MAX_SPEECH_SAMPLES

\* A variant that compares the samples of the speech ticks only.
ShouldSubmitSpeechOnly(buf) == speechDurationSamples >= MIN_SPEECH_SAMPLES

\* A variant that compares the sample count with the duration in ms.
ShouldSubmitMs(buf) == Len(buf) >= MIN_SPEECH_MS

ShouldSubmit(buf) == Len(buf) >= MIN_SPEECH_SAMPLES

\* A variant of the reset that keeps the trailing-silence counter.
ResetStateKeepsCounter ==
    /\ currentState' = "SILENCE"
    /\ speechBuffer' = <<>>
    /\ UNCHANGED silenceDurationSamples
    /\ speechDurationSamples' = 0
    /\ runTotal' = 0

\* "Reset state" at the end of transcribe_now.
ResetState ==
    /\ currentState' = "SILENCE"
    /\ speechBuffer' = <<>>
    /\ silenceDurationSamples' = 0
    /\ speechDurationSamples' = 0
    /\ runTotal' = 0

\* A variant whose skipped tick counts as one window of silence.
SegSnapshotSkipCounts ==
    /\ spc = "s_loop"
    /\ isRunning
    /\ micBufferMutex = "free"
    /\ IF Len(microphoneBuffer) = 0 \/ Len(microphoneBuffer) < VAD_WINDOW_SAMPLES
       THEN /\ micBuffer' = <<>>
            /\ spc' = "s_loop"
            /\ silenceDurationSamples' =
                  IF currentState = "SPEAKING" /\ silenceDurationSamples = 0
                  THEN VAD_WINDOW_SAMPLES
                  ELSE silenceDurationSamples
       ELSE /\ micBuffer' = microphoneBuffer
            /\ spc' = "s_vad"
            /\ UNCHANGED silenceDurationSamples
    /\ pace' = IF pace = "late" THEN "late" ELSE "seen"
    /\ UNCHANGED <<lifeVars, resampleVars, vadVars, mpc, microphoneBuffer, micBufferMutex, produced,
                   packets, evicted, sysVars, currentState, speechBuffer,
                   speechDurationSamples, runTotal,
                   runs, variantsUsed, state, queued, queueVars>>

\* A variant whose snapshot reads microphoneBuffer without taking
\* micBufferMutex.
SegSnapshotNoLock ==
    /\ spc = "s_loop"
    /\ isRunning
    /\ IF Len(microphoneBuffer) = 0 \/ Len(microphoneBuffer) < VAD_WINDOW_SAMPLES
       THEN /\ micBuffer' = <<>>
            /\ spc' = "s_loop"
       ELSE /\ micBuffer' = microphoneBuffer
            /\ spc' = "s_vad"
    /\ pace' = IF pace = "late" THEN "late" ELSE "seen"
    /\ UNCHANGED <<lifeVars, resampleVars, vadVars, mpc, microphoneBuffer, micBufferMutex, produced,
                   packets, evicted, sysVars, currentState, speechBuffer,
                   silenceDurationSamples, speechDurationSamples, runTotal,
                   runs, variantsUsed, state, queued, queueVars>>

\* A variant whose snapshot keeps micBufferMutex while the window is
\* classified.
SegSnapshotKeepLock ==
    /\ spc = "s_loop"
    /\ isRunning
    /\ micBufferMutex = "free"
    /\ IF Len(microphoneBuffer) = 0 \/ Len(microphoneBuffer) < VAD_WINDOW_SAMPLES
       THEN /\ micBuffer' = <<>>
            /\ spc' = "s_loop"
            /\ UNCHANGED micBufferMutex
       ELSE /\ micBuffer' = microphoneBuffer
            /\ spc' = "s_vad"
            /\ micBufferMutex' = "segmenter"
    /\ pace' = IF pace = "late" THEN "late" ELSE "seen"
    /\ UNCHANGED <<lifeVars, resampleVars, vadVars, mpc, microphoneBuffer, produced,
                   packets, evicted, sysVars, currentState, speechBuffer,
                   silenceDurationSamples, speechDurationSamples, runTotal,
                   runs, variantsUsed, state, queued, queueVars>>

\* Loop head: the snapshot, and the two early "continue"s.
SegSnapshot ==
    /\ spc = "s_loop"
    /\ isRunning
    /\ micBufferMutex = "free"
    /\ IF Len(microphoneBuffer) = 0 \/ Len(microphoneBuffer) < VAD_WINDOW_SAMPLES
       THEN /\ micBuffer' = <<>>
            /\ spc' = "s_loop"
       ELSE /\ micBuffer' = microphoneBuffer
            /\ spc' = "s_vad"
    /\ pace' = IF pace = "late" THEN "late" ELSE "seen"
    /\ UNCHANGED <<lifeVars, resampleVars, vadVars, mpc, microphoneBuffer, micBufferMutex, produced,
                   packets, evicted, sysVars, currentState, speechBuffer,
                   silenceDurationSamples, speechDurationSamples, runTotal,
                   runs, variantsUsed, state, queued, queueVars>>

\* A variant of the loop exit that finalizes an utterance in progress before
\* the thread returns.
SegExitFlush ==
    /\ spc = "s_loop"
    /\ ~isRunning
    /\ spc' = IF currentState = "SPEAKING" /\ ShouldSubmit(speechBuffer)
              THEN "s_queue" ELSE "s_exited"
    /\ threads' = IF currentState = "SPEAKING" /\ ShouldSubmit(speechBuffer)
                  THEN threads ELSE [threads EXCEPT !.seg = @ - 1]
    /\ UNCHANGED <<isRunning, epc, useSimpleVAD, sileroVAD, calls, resampleVars, vadVars, mpc, captureVars, segLocals, queued, queueVars>>

\* while (isRunning.load()) fails: the thread returns.
SegExit ==
    /\ spc = "s_loop"
    /\ ~isRunning
    /\ spc' = "s_exited"
    /\ threads' = [threads EXCEPT !.seg = @ - 1]
    /\ UNCHANGED <<isRunning, epc, useSimpleVAD, sileroVAD, calls, resampleVars, vadVars, mpc, captureVars, segLocals, queued, queueVars>>

\* A variant that leaves the snapshot of a silent tick out of the utterance.
SegClassifyDropSilence(isSpeech) ==
    /\ spc = "s_vad"
    /\ variantsUsed' = variantsUsed \cup {Variant}
    /\ state' = Process
    /\ IF currentState = "SILENCE"
       THEN IF isSpeech
            THEN /\ currentState' = "SPEAKING"
                 /\ speechBuffer' = micBuffer
                 /\ speechDurationSamples' = Len(micBuffer)
                 /\ silenceDurationSamples' = 0
                 /\ runTotal' = Len(micBuffer)
                 /\ spc' = "s_clear_start"
                 /\ UNCHANGED micBuffer
            ELSE /\ spc' = "s_loop"
                 /\ micBuffer' = <<>>
                 /\ UNCHANGED <<currentState, speechBuffer, speechDurationSamples,
                                silenceDurationSamples, runTotal>>
       ELSE IF isSpeech
            THEN /\ silenceDurationSamples' = 0
                 /\ speechDurationSamples' = speechDurationSamples + Len(micBuffer)
                 /\ speechBuffer' = speechBuffer \o micBuffer
                 /\ runTotal' = runTotal + Len(micBuffer)
                 /\ spc' = "s_clear_speech"
                 /\ UNCHANGED <<currentState, micBuffer>>
            ELSE /\ silenceDurationSamples' = silenceDurationSamples + Len(micBuffer)
                 /\ runTotal' = runTotal + Len(micBuffer)
                 /\ spc' = "s_clear_silence"
                 /\ UNCHANGED <<currentState, speechBuffer,
                                speechDurationSamples, micBuffer>>
    /\ UNCHANGED <<lifeVars, resampleVars, vadVars, mpc, captureVars, runs, queued, queueVars>>

\* A variant in which a speech tick leaves the trailing-silence counter as it
\* is.
SegClassifyKeepsSilence(isSpeech) ==
    /\ spc = "s_vad"
    /\ variantsUsed' = variantsUsed \cup {Variant}
    /\ state' = Process
    /\ IF currentState = "SILENCE"
       THEN IF isSpeech
            THEN /\ currentState' = "SPEAKING"
                 /\ speechBuffer' = micBuffer
                 /\ speechDurationSamples' = Len(micBuffer)
                 /\ silenceDurationSamples' = 0
                 /\ runTotal' = Len(micBuffer)
                 /\ spc' = "s_clear_start"
                 /\ UNCHANGED micBuffer
            ELSE /\ spc' = "s_loop"
                 /\ micBuffer' = <<>>
                 /\ UNCHANGED <<currentState, speechBuffer, speechDurationSamples,
                                silenceDurationSamples, runTotal>>
       ELSE IF isSpeech
            THEN /\ UNCHANGED silenceDurationSamples
                 /\ speechDurationSamples' = speechDurationSamples + Len(micBuffer)
                 /\ speechBuffer' = speechBuffer \o micBuffer
                 /\ runTotal' = runTotal + Len(micBuffer)
                 /\ spc' = "s_clear_speech"
                 /\ UNCHANGED <<currentState, micBuffer>>
            ELSE /\ silenceDurationSamples' = silenceDurationSamples + Len(micBuffer)
                 /\ speechBuffer' = speechBuffer \o micBuffer
                 /\ runTotal' = runTotal + Len(micBuffer)
                 /\ spc' = "s_clear_silence"
                 /\ UNCHANGED <<currentState, speechDurationSamples, micBuffer>>
    /\ UNCHANGED <<lifeVars, resampleVars, vadVars, mpc, captureVars, runs, queued, queueVars>>

\* The classifier has answered isSpeech for VadWindow(micBuffer); the state
\* machine updates its locals up to the clear of the capture buffer.
SegClassify(isSpeech) ==
    /\ spc = "s_vad"
    /\ variantsUsed' = variantsUsed \cup {Variant}
    /\ state' = Process
    /\ IF currentState = "SILENCE"
       THEN IF isSpeech
            THEN /\ currentState' = "SPEAKING"
                 /\ speechBuffer' = micBuffer
                 /\ speechDurationSamples' = Len(micBuffer)
                 /\ silenceDurationSamples' = 0
                 /\ runTotal' = Len(micBuffer)
                 /\ spc' = "s_clear_start"
                 /\ UNCHANGED micBuffer
            ELSE /\ spc' = "s_loop"
                 /\ micBuffer' = <<>>
                 /\ UNCHANGED <<currentState, speechBuffer, speechDurationSamples,
                                silenceDurationSamples, runTotal>>
       ELSE IF isSpeech
            THEN /\ silenceDurationSamples' = 0
                 /\ speechDurationSamples' = speechDurationSamples + Len(micBuffer)
                 /\ speechBuffer' = speechBuffer \o micBuffer
                 /\ runTotal' = runTotal + Len(micBuffer)
                 /\ spc' = "s_clear_speech"
                 /\ UNCHANGED <<currentState, micBuffer>>
            ELSE /\ silenceDurationSamples' = silenceDurationSamples + Len(micBuffer)
                 /\ speechBuffer' = speechBuffer \o micBuffer
                 /\ runTotal' = runTotal + Len(micBuffer)
                 /\ spc' = "s_clear_silence"
                 /\ UNCHANGED <<currentState, speechDurationSamples, micBuffer>>
    /\ UNCHANGED <<lifeVars, resampleVars, vadVars, mpc, captureVars, runs, queued, queueVars>>

\* The utterance ends on this tick (by silence or by the maximum length).
Finalizes ==
    \/ spc = "s_clear_speech" /\ MaxReached(speechBuffer)
    \/ spc = "s_clear_silence" /\ SilenceEnds(silenceDurationSamples)

\* "Clear processed buffer" under micBufferMutex, then the end-of-utterance
\* checks up to the call of QueueAudio.
SegClear ==
    /\ spc \in {"s_clear_start", "s_clear_speech", "s_clear_silence"}
    /\ micBufferMutex = "free"
    /\ microphoneBuffer' = <<>>
    /\ micBuffer' = <<>>
    /\ IF Finalizes
       THEN /\ runs' = Append(runs, runTotal)
            /\ IF ShouldSubmit(speechBuffer)
               THEN /\ spc' = "s_queue"
                    /\ UNCHANGED <<currentState, speechBuffer, silenceDurationSamples,
                                   speechDurationSamples, runTotal>>
               ELSE /\ spc' = "s_loop"
                    /\ ResetState
       ELSE /\ spc' = "s_loop"
            /\ UNCHANGED <<currentState, speechBuffer, silenceDurationSamples,
                           speechDurationSamples, runTotal, runs>>
    /\ UNCHANGED <<lifeVars, resampleVars, vadVars, mpc, micBufferMutex, produced, packets, evicted,
                   pace, sysVars, variantsUsed, state, queued, queueVars>>

\* A variant of the finalize step that transcribes on the segmenter thread
\* (the synchronous AudioCaptureEngine::TranscribeAudio) instead of queueing.
SegTranscribeInline ==
    /\ spc = "s_queue"
    /\ inWhisper' = inWhisper \cup {"segmenter"}
    /\ queued' = Append(queued, speechBuffer)
    /\ spc' = "s_notify"
    /\ UNCHANGED <<lifeVars, resampleVars, vadVars, mpc, captureVars, segLocals, audioQueue,
                   audioQueueMutex, running, processing, wpc, audioToProcess,
                   transcription, observedStop, queuedAtExit, dequeued, transcribed, rsVars,
                   plVars, dpc>>

\* A variant of QueueAudio that refuses a job once the stop signal is raised.
SegQueueAudioIfRunning ==
    /\ spc = "s_queue"
    /\ running
    /\ audioQueueMutex = "free"
    /\ audioQueue' = Append(audioQueue, speechBuffer)
    /\ queued' = Append(queued, speechBuffer)
    /\ spc' = "s_notify"
    /\ UNCHANGED <<lifeVars, resampleVars, vadVars, mpc, captureVars, segLocals, audioQueueMutex,
                   wkVars, rsVars, plVars, dpc>>

\* QueueAudio: push under audioQueueMutex.
SegQueueAudio ==
    /\ spc = "s_queue"
    /\ audioQueueMutex = "free"
    /\ audioQueue' = Append(audioQueue, speechBuffer)
    /\ queued' = Append(queued, speechBuffer)
    /\ spc' = "s_notify"
    /\ UNCHANGED <<lifeVars, resampleVars, vadVars, mpc, captureVars, segLocals, audioQueueMutex,
                   wkVars, rsVars, plVars, dpc>>

\* A variant of QueueAudio without the cv.notify_one().
SegNotifyOmitted ==
    /\ spc = "s_notify"
    /\ spc' = "s_qsize"
    /\ UNCHANGED <<lifeVars, resampleVars, vadVars, mpc, captureVars, segLocals, queued, audioQueue,
                   audioQueueMutex, wkVars, rsVars, plVars, dpc>>

\* QueueAudio: cv.notify_one() wakes the worker when it waits on cv, and is
\* lost otherwise.
SegNotify ==
    /\ spc = "s_notify"
    /\ spc' = "s_qsize"
    /\ wpc' = Notified(wpc)
    /\ UNCHANGED <<lifeVars, resampleVars, vadVars, mpc, captureVars, segLocals, queued, audioQueue,
                   audioQueueMutex, running, processing, audioToProcess,
                   transcription, observedStop, queuedAtExit, inWhisper, dequeued,
                   transcribed, rsVars, plVars, dpc>>

\* QueueAudio: GetQueueSize() for the log line; back in ProcessingThread the
\* state is reset.
SegQueueSize ==
    /\ spc = "s_qsize"
    /\ audioQueueMutex = "free"
    /\ spc' = "s_loop"
    /\ ResetState
    /\ UNCHANGED <<lifeVars, resampleVars, vadVars, mpc, captureVars, micBuffer, runs, variantsUsed, state,
                   queued, queueVars>>

Segmenter ==
    \/ SegSnapshot
    \/ SegExit
    \/ \E isSpeech \in BOOLEAN : SegClassify(isSpeech)
    \/ SegClear
    \/ SegQueueAudio
    \/ SegNotify
    \/ SegQueueSize

\* ---------------------------------------------------------------------------
\* AsyncWhisperQueue::WorkerThread
\* ---------------------------------------------------------------------------

\* What TranscribeAudio says about an utterance: the text of a job is known
\* by the job's first sample and its length.
TextOf(audio) == <<"text", audio[1], Len(audio)>>

\* The results TranscribeAudio can return: nothing for empty audio, and for
\* any audio nothing (whisper_full failed, or no segment text) or its text.
Transcriptions(audio) ==
    IF audio = <<>> THEN {NoText} ELSE {NoText, TextOf(audio)}

\* while (running.load()) at the loop head.
WorkerLoop ==
    /\ wpc = "w_loop"
    /\ IF running
       THEN /\ wpc' = "w_lock"
            /\ UNCHANGED <<observedStop, queuedAtExit>>
       ELSE /\ wpc' = "w_exit"
            /\ observedStop' = TRUE
            /\ queuedAtExit' = queued
    /\ UNCHANGED <<engineVars, audioQueue, audioQueueMutex, running, processing,
                   audioToProcess, transcription, inWhisper, dequeued,
                   transcribed, rsVars, plVars, dpc>>

\* std::unique_lock<std::mutex> lock(audioQueueMutex), and the lock taken
\* again by cv.wait after a wake-up.
WorkerLock ==
    /\ wpc \in {"w_lock", "w_woken"}
    /\ audioQueueMutex = "free"
    /\ audioQueueMutex' = "worker"
    /\ wpc' = "w_pred"
    /\ UNCHANGED <<engineVars, audioQueue, running, processing, audioToProcess,
                   transcription, observedStop, queuedAtExit, inWhisper, dequeued,
                   transcribed, rsVars, plVars, dpc>>

\* cv.wait evaluates its predicate !audioQueue.empty() || !running.load()
\* with the mutex held.
WorkerPredicate ==
    /\ wpc = "w_pred"
    /\ audioQueueMutex = "worker"
    /\ IF audioQueue # <<>>
       THEN /\ wpc' = "w_check"
            /\ UNCHANGED <<observedStop, queuedAtExit>>
       ELSE IF ~running
            THEN /\ wpc' = "w_check"
                 /\ observedStop' = TRUE
                 /\ UNCHANGED queuedAtExit
            ELSE /\ wpc' = "w_towait"
                 /\ UNCHANGED <<observedStop, queuedAtExit>>
    /\ UNCHANGED <<engineVars, audioQueue, audioQueueMutex, running, processing,
                   audioToProcess, transcription, inWhisper, dequeued,
                   transcribed, rsVars, plVars, dpc>>

\* The predicate was false: cv.wait releases the mutex and blocks, in one
\* step with respect to notifications.
WorkerWait ==
    /\ wpc = "w_towait"
    /\ audioQueueMutex = "worker"
    /\ audioQueueMutex' = "free"
    /\ wpc' = "w_blocked"
    /\ UNCHANGED <<engineVars, audioQueue, running, processing, audioToProcess,
                   transcription, observedStop, queuedAtExit, inWhisper, dequeued,
                   transcribed, rsVars, plVars, dpc>>

\* A wake-up of cv.wait without any notification, which the C++ standard
\* allows.
WorkerSpuriousWake ==
    /\ wpc = "w_blocked"
    /\ wpc' = "w_woken"
    /\ UNCHANGED <<engineVars, audioQueue, audioQueueMutex, running, processing,
                   audioToProcess, transcription, observedStop, queuedAtExit, inWhisper,
                   dequeued, transcribed, rsVars, plVars, dpc>>

\* The worker leaves the loop: it has read running == false.
WorkerBreak ==
    /\ audioQueueMutex' = "free"
    /\ wpc' = "w_exit"
    /\ observedStop' = TRUE
    /\ queuedAtExit' = queued
    /\ UNCHANGED <<audioQueue, audioToProcess, dequeued>>

\* A variant that keeps audioQueueMutex while the job is transcribed.
WorkerDequeueKeepLock ==
    /\ audioToProcess' = Head(audioQueue)
    /\ audioQueue' = Tail(audioQueue)
    /\ dequeued' = Append(dequeued, Head(audioQueue))
    /\ wpc' = "w_transcribe"
    /\ UNCHANGED <<observedStop, queuedAtExit, audioQueueMutex>>

\* A variant that reads the front job without removing it.
WorkerDequeueNoPop ==
    /\ audioToProcess' = Head(audioQueue)
    /\ dequeued' = Append(dequeued, Head(audioQueue))
    /\ audioQueueMutex' = "free"
    /\ wpc' = "w_transcribe"
    /\ UNCHANGED <<observedStop, queuedAtExit, audioQueue>>

\* The worker takes the job at the front of the pending FIFO and releases
\* the mutex.
WorkerDequeue ==
    /\ audioToProcess' = Head(audioQueue)
    /\ audioQueue' = Tail(audioQueue)
    /\ dequeued' = Append(dequeued, Head(audioQueue))
    /\ audioQueueMutex' = "free"
    /\ wpc' = "w_transcribe"
    /\ UNCHANGED <<observedStop, queuedAtExit>>

\* A variant that drains the pending FIFO before it honours the stop signal:
\* if (!running.load() && audioQueue.empty()) break.
WorkerCheckDrain ==
    /\ wpc = "w_check"
    /\ audioQueueMutex = "worker"
    /\ IF ~running /\ audioQueue = <<>>
       THEN WorkerBreak
       ELSE /\ audioToProcess' = Head(audioQueue)
            /\ audioQueue' = Tail(audioQueue)
            /\ dequeued' = Append(dequeued, Head(audioQueue))
            /\ audioQueueMutex' = "free"
            /\ wpc' = "w_transcribe"
            /\ observedStop' = (observedStop \/ ~running)
            /\ UNCHANGED queuedAtExit
    /\ UNCHANGED <<engineVars, running, processing, transcription, inWhisper,
                   transcribed, rsVars, plVars, dpc>>

\* After the wait: if (!running.load()) break; otherwise front() and pop(),
\* and the lock goes out of scope.
WorkerCheck ==
    /\ wpc = "w_check"
    /\ audioQueueMutex = "worker"
    /\ IF ~running THEN WorkerBreak ELSE WorkerDequeue
    /\ UNCHANGED <<engineVars, running, processing, transcription, inWhisper,
                   transcribed, rsVars, plVars, dpc>>

\* processing.store(true) and the call of TranscribeAudio.
WorkerTranscribeStart ==
    /\ wpc = "w_transcribe"
    /\ processing' = TRUE
    /\ inWhisper' = inWhisper \cup {"worker"}
    /\ wpc' = "w_inwhisper"
    /\ UNCHANGED <<engineVars, audioQueue, audioQueueMutex, running,
                   audioToProcess, transcription, observedStop, queuedAtExit, dequeued,
                   transcribed, rsVars, plVars, dpc>>

\* TranscribeAudio returns text; processing.store(false).
WorkerTranscribeEnd(text) ==
    /\ wpc = "w_inwhisper"
    /\ transcription' = text
    /\ transcribed' = Append(transcribed, [audio |-> audioToProcess, text |-> text])
    /\ inWhisper' = inWhisper \ {"worker"}
    /\ processing' = FALSE
    /\ wpc' = "w_result"
    /\ UNCHANGED <<engineVars, audioQueue, audioQueueMutex, running,
                   audioToProcess, observedStop, queuedAtExit, dequeued, rsVars, plVars, dpc>>

\* whisper_context* whisperContext: null until InitializeWhisper has loaded
\* the model (which also creates the queue and its worker), and dangling
\* once the body of ~AudioCaptureEngine has called whisper_free.
whisperContext ==
    IF epc = "destroyed" THEN "freed"
    ELSE IF wpc = "w_none" THEN "null" ELSE "loaded"

\* What a transcription call that runs on a freed context can leave behind.
Garbage == <<"garbage">>

\* whisper_full on a context that whisper_free has released: the call may
\* return as if nothing had happened (WorkerTranscribeEnd), return anything,
\* or bring the process down.
WorkerUseAfterFree(crash) ==
    /\ wpc = "w_inwhisper"
    /\ whisperContext = "freed"
    /\ IF crash
       THEN /\ wpc' = "w_crashed"
            /\ UNCHANGED <<transcription, transcribed, inWhisper, processing>>
       ELSE /\ transcription' = Garbage
            /\ transcribed' = Append(transcribed,
                                    [audio |-> audioToProcess, text |-> Garbage])
            /\ inWhisper' = inWhisper \ {"worker"}
            /\ processing' = FALSE
            /\ wpc' = "w_result"
    /\ UNCHANGED <<engineVars, audioQueue, audioQueueMutex, running,
                   audioToProcess, observedStop, queuedAtExit, dequeued, rsVars, plVars, dpc>>

\* A variant that pushes the result whether it is empty or not.
WorkerPushAlways ==
    /\ wpc = "w_result"
    /\ resultsQueueMutex = "free"
    /\ resultsQueueMutex' = "worker"
    /\ resultsQueue' = Append(resultsQueue, transcription)
    /\ wpc' = "w_count"
    /\ UNCHANGED <<engineVars, audioQueue, audioQueueMutex, running, processing,
                   audioToProcess, transcription, observedStop, queuedAtExit, inWhisper,
                   dequeued, transcribed, processedCount, plVars, dpc>>

\* if (!transcription.empty()): lock resultsQueueMutex and push the result;
\* an empty result is dropped.
WorkerPushResult ==
    /\ wpc = "w_result"
    /\ IF transcription # NoText
       THEN /\ resultsQueueMutex = "free"
            /\ resultsQueueMutex' = "worker"
            /\ resultsQueue' = Append(resultsQueue, transcription)
            /\ wpc' = "w_count"
       ELSE /\ wpc' = "w_loop"
            /\ UNCHANGED <<resultsQueue, resultsQueueMutex>>
    /\ UNCHANGED <<engineVars, audioQueue, audioQueueMutex, running, processing,
                   audioToProcess, transcription, observedStop, queuedAtExit, inWhisper,
                   dequeued, transcribed, processedCount, plVars, dpc>>

\* A variant that leaves the critical section without counting.
WorkerCountSkipped ==
    /\ wpc = "w_count"
    /\ resultsQueueMutex = "worker"
    /\ resultsQueueMutex' = "free"
    /\ wpc' = "w_loop"
    /\ UNCHANGED <<engineVars, audioQueue, audioQueueMutex, running, processing, audioToProcess, transcription,
                   observedStop, queuedAtExit, inWhisper, dequeued, transcribed,
                   resultsQueue, processedCount, plVars, dpc>>

\* processedCount++ and the end of the critical section.
WorkerCount ==
    /\ wpc = "w_count"
    /\ resultsQueueMutex = "worker"
    /\ processedCount' = processedCount + 1
    /\ resultsQueueMutex' = "free"
    /\ wpc' = "w_loop"
    /\ UNCHANGED <<engineVars, audioQueue, audioQueueMutex, running, processing, audioToProcess, transcription,
                   observedStop, queuedAtExit, inWhisper, dequeued, transcribed,
                   resultsQueue, plVars, dpc>>

\* The steps the worker thread takes by itself.
Worker ==
    \/ WorkerLoop
    \/ WorkerLock
    \/ WorkerPredicate
    \/ WorkerWait
    \/ WorkerCheck
    \/ WorkerTranscribeStart
    \/ \E b \in BOOLEAN :
         WorkerTranscribeEnd(IF b THEN TextOf(audioToProcess) ELSE NoText)
    \/ WorkerPushResult
    \/ WorkerCount

\* ---------------------------------------------------------------------------
\* AsyncWhisperQueue::GetLatestResult, AudioCaptureEngine::GetLatestUserSpeech
\* ---------------------------------------------------------------------------

\* A variant that takes the newest result instead of the oldest.
TakeNewestResult(q) == [value |-> q[Len(q)], rest |-> SubSeq(q, 1, Len(q) - 1)]

\* front() and pop() of the results FIFO.
TakeResult(q) == [value |-> Head(q), rest |-> Tail(q)]

\* GetLatestUserSpeech calls GetLatestResult, which runs under
\* resultsQueueMutex; on an empty result the cached text is returned.
PollGetLatestResult ==
    /\ ppc = "p_idle"
    /\ resultsQueueMutex = "free"
    /\ IF resultsQueue = <<>>
       THEN /\ result' = NoText
            /\ userSpeech' = latestUserSpeech
            /\ UNCHANGED <<resultsQueue, returned, ppc>>
       ELSE /\ result' = TakeResult(resultsQueue).value
            /\ resultsQueue' = TakeResult(resultsQueue).rest
            /\ returned' = Append(returned, TakeResult(resultsQueue).value)
            /\ ppc' = "p_cache"
            /\ UNCHANGED userSpeech
    /\ UNCHANGED <<engineVars, audioQueue, audioQueueMutex, wkVars,
                   resultsQueueMutex, processedCount, latestUserSpeech,
                   callbacks, cpc, cresult, dpc>>

\* A variant of GetLatestUserSpeech that returns a non-empty result without
\* caching it.
PollCacheSkipped ==
    /\ ppc = "p_cache"
    /\ userSpeech' = result
    /\ ppc' = "p_idle"
    /\ UNCHANGED <<engineVars, audioQueue, audioQueueMutex, wkVars, rsVars,
                   result, latestUserSpeech, returned, callbacks, cpc, cresult, dpc>>

\* A variant of GetLatestUserSpeech that caches and returns a non-empty
\* result without calling the callback.
PollCacheWithoutCallback ==
    /\ ppc = "p_cache"
    /\ latestUserSpeech' = result
    /\ userSpeech' = result
    /\ ppc' = "p_idle"
    /\ UNCHANGED <<engineVars, audioQueue, audioQueueMutex, wkVars, rsVars,
                   result, returned, callbacks, cpc, cresult, dpc>>

\* GetLatestUserSpeech caches a non-empty result, calls the callback (the
\* one PerceptionEngine has set before Start) with it and returns it.
PollCache ==
    /\ ppc = "p_cache"
    /\ latestUserSpeech' = result
    /\ userSpeech' = result
    /\ callbacks' = Append(callbacks, result)
    /\ ppc' = "p_idle"
    /\ UNCHANGED <<engineVars, audioQueue, audioQueueMutex, wkVars, rsVars,
                   result, returned, cpc, cresult, dpc>>

Poller == PollGetLatestResult \/ PollCache

\* GetLatestResult called from another thread at the same time, step by
\* step.

\* A variant of GetLatestResult without the lock_guard.
CallerNoLock ==
    /\ cpc = "c_idle"
    /\ cpc' = "c_locked"
    /\ UNCHANGED <<engineVars, audioQueue, audioQueueMutex, wkVars, rsVars,
                   ppc, result, latestUserSpeech, userSpeech, returned, callbacks, cresult, dpc>>

\* std::lock_guard<std::mutex> lock(resultsQueueMutex)
CallerLock ==
    /\ cpc = "c_idle"
    /\ resultsQueueMutex = "free"
    /\ resultsQueueMutex' = "caller"
    /\ cpc' = "c_locked"
    /\ UNCHANGED <<engineVars, audioQueue, audioQueueMutex, wkVars,
                   resultsQueue, processedCount, ppc, result,
                   latestUserSpeech, userSpeech, returned, callbacks, cresult, dpc>>

\* The end of the lock_guard's scope.
Unlocked(holder) == IF holder = "caller" THEN "free" ELSE holder

\* if (resultsQueue.empty()) return ""; otherwise result = front().
CallerFront ==
    /\ cpc = "c_locked"
    /\ IF resultsQueue = <<>>
       THEN /\ cresult' = NoText
            /\ resultsQueueMutex' = Unlocked(resultsQueueMutex)
            /\ cpc' = "c_idle"
       ELSE /\ cresult' = TakeResult(resultsQueue).value
            /\ cpc' = "c_pop"
            /\ UNCHANGED resultsQueueMutex
    /\ UNCHANGED <<engineVars, audioQueue, audioQueueMutex, wkVars,
                   resultsQueue, processedCount, ppc, result,
                   latestUserSpeech, userSpeech, returned, callbacks, dpc>>

\* resultsQueue.pop(); return result.  (Under the lock the queue is not
\* empty here.)
CallerPop ==
    /\ cpc = "c_pop"
    /\ resultsQueue' = IF resultsQueue = <<>> THEN <<>>
                       ELSE TakeResult(resultsQueue).rest
    /\ returned' = Append(returned, cresult)
    /\ resultsQueueMutex' = Unlocked(resultsQueueMutex)
    /\ cpc' = "c_idle"
    /\ UNCHANGED <<engineVars, audioQueue, audioQueueMutex, wkVars,
                   processedCount, ppc, result, latestUserSpeech, userSpeech,
                   callbacks, cresult, dpc>>

Caller == CallerLock \/ CallerFront \/ CallerPop

\* ---------------------------------------------------------------------------
\* AsyncWhisperQueue::~AsyncWhisperQueue
\* ---------------------------------------------------------------------------

\* running.store(false)
QueueDtorSignal ==
    /\ dpc = "d_alive"
    /\ running' = FALSE
    /\ dpc' = "d_notify"
    /\ UNCHANGED <<engineVars, audioQueue, audioQueueMutex, processing, wpc,
                   audioToProcess, transcription, observedStop, queuedAtExit, inWhisper,
                   dequeued, transcribed, rsVars, plVars>>

\* cv.notify_all()
QueueDtorNotifyAll ==
    /\ dpc = "d_notify"
    /\ wpc' = Notified(wpc)
    /\ dpc' = "d_join"
    /\ UNCHANGED <<engineVars, audioQueue, audioQueueMutex, running, processing,
                   audioToProcess, transcription, observedStop, queuedAtExit, inWhisper,
                   dequeued, transcribed, rsVars, plVars>>

\* workerThread.join() returns once the worker has left WorkerThread.
QueueDtorJoin ==
    /\ dpc = "d_join"
    /\ wpc = "w_exit"
    /\ dpc' = "d_done"
    /\ UNCHANGED <<engineVars, audioQueue, audioQueueMutex, wkVars, rsVars, plVars>>

QueueDtor == QueueDtorSignal \/ QueueDtorNotifyAll \/ QueueDtorJoin

\* ---------------------------------------------------------------------------
\* AudioCaptureEngine::~AudioCaptureEngine
\* ---------------------------------------------------------------------------

\* A variant of the destructor that destroys the queue without calling
\* Stop() first.
EngineDtorWithoutStop ==
    /\ epc \in {"initialized", "started", "stopped"}
    /\ dpc = "d_alive"
    /\ epc' = "destroyed"
    /\ running' = FALSE
    /\ dpc' = "d_notify"
    /\ UNCHANGED <<resampleVars, vadVars, threads, calls, isRunning, useSimpleVAD, sileroVAD, mpc, captureVars, spc,
                   segLocals, queued, audioQueue, audioQueueMutex, processing,
                   wpc, audioToProcess, transcription, observedStop,
                   queuedAtExit, inWhisper, dequeued, transcribed, rsVars,
                   plVars>>

\* The destructor: its body calls Stop(), which has returned (after its
\* joins, or at once when the engine was not running); the members are
\* destroyed after the body, asyncWhisperQueue among them, whose destructor
\* begins with running.store(false).
EngineDtor ==
    /\ epc \in {"initialized", "stopped"}
    /\ dpc = "d_alive"
    /\ epc' = "destroyed"
    /\ running' = FALSE
    /\ dpc' = "d_notify"
    /\ UNCHANGED <<resampleVars, vadVars, threads, calls, isRunning, useSimpleVAD, sileroVAD, mpc, captureVars, spc,
                   segLocals, queued, audioQueue, audioQueueMutex, processing,
                   wpc, audioToProcess, transcription, observedStop,
                   queuedAtExit, inWhisper, dequeued, transcribed, rsVars,
                   plVars>>

\* ---------------------------------------------------------------------------
\* The segmenter seen from the queue: ProcessingThread reaches QueueAudio
\* with an utterance of the minimum length made of the next samples of the
\* stream.
\* ---------------------------------------------------------------------------
UtteranceReady ==
    /\ spc = "s_loop"
    /\ isRunning
    /\ Len(queued) < MaxJobs
    /\ speechBuffer' = Range(produced + 1, produced + MIN_SPEECH_SAMPLES)
    /\ produced' = produced + MIN_SPEECH_SAMPLES
    /\ currentState' = "SPEAKING"
    /\ runTotal' = MIN_SPEECH_SAMPLES
    /\ runs' = Append(runs, MIN_SPEECH_SAMPLES)
    /\ spc' = "s_queue"
    /\ UNCHANGED <<lifeVars, resampleVars, vadVars, mpc, microphoneBuffer, micBufferMutex, packets,
                   evicted, pace, sysVars, micBuffer, silenceDurationSamples,
                   speechDurationSamples, variantsUsed, state, queued,
                   queueVars>>

NextQueue ==
    \/ Start
    \/ UtteranceReady
    \/ SegQueueAudio
    \/ SegNotify
    \/ SegQueueSize
    \/ Worker
    \/ WorkerSpuriousWake
    \/ Poller
    \/ Caller
    \/ QueueDtor

SpecQueue == Init /\ [][NextQueue]_vars

\* The queue with GetLatestUserSpeech as its only consumer.
NextPoll ==
    \/ Start
    \/ UtteranceReady
    \/ SegQueueAudio
    \/ SegNotify
    \/ SegQueueSize
    \/ Worker
    \/ WorkerSpuriousWake
    \/ Poller
    \/ QueueDtor

SpecPoll == Init /\ [][NextPoll]_vars

\* Every thread that can take a step eventually takes one: the worker
\* (whose transcription calls return, and which gets a mutex it keeps
\* asking for), the thread running the destructor, a caller inside
\* GetLatestResult, and a QueueAudio call that has pushed its job.  Spurious
\* wake-ups are possible but not promised.
SpecQueueLive ==
    /\ Init /\ [][NextQueue]_vars
    /\ SF_vars(Worker) /\ WF_vars(QueueDtor) /\ WF_vars(Caller)
    /\ WF_vars(SegNotify)

\* ---------------------------------------------------------------------------
\* The end-to-end scenario: the microphone delivers 200 ms of silence, 500 ms
\* of speech, 200 ms of silence, 600 ms of speech and 400 ms of silence, one
\* classifier window at a time, and the classifier answers what the audio is.
\* ---------------------------------------------------------------------------

\* A duration in samples, as ProcessingThread converts its thresholds.
SamplesOf(ms) == (SAMPLE_RATE * ms) \div 1000

ScenarioMs == <<200, 500, 200, 600, 400>>
ScenarioSpeech == <<FALSE, TRUE, FALSE, TRUE, FALSE>>

\* The position of the last sample of the k-th part of the scenario.
RECURSIVE ScenarioEnd(_)
ScenarioEnd(k) ==
    IF k = 0 THEN 0 ELSE ScenarioEnd(k - 1) + SamplesOf(ScenarioMs[k])

ScenarioLength == ScenarioEnd(Len(ScenarioMs))

\* Whether the sample at position t of the stream is speech.
ScenarioIsSpeech(t) ==
    \E k \in 1..Len(ScenarioMs) :
       /\ ScenarioEnd(k - 1) < t
       /\ t <= ScenarioEnd(k)
       /\ ScenarioSpeech[k]

\* IsSpeechDetected with the classifier matching the audio: the window is
\* speech iff it holds a speech sample.
IsSpeechDetected(vadWindow) ==
    \E i \in 1..Len(vadWindow) : ScenarioIsSpeech(vadWindow[i])

\* MicrophoneCaptureThread delivers the next window of the scenario:
\* AddMicrophoneData inserts it and evicts the excess under micBufferMutex.
ScenarioFeed ==
    /\ mpc = "m_loop"
    /\ isRunning
    /\ produced < ScenarioLength
    /\ micBufferMutex = "free"
    /\ LET rest == ScenarioLength - produced
           n == IF rest < VAD_WINDOW_SAMPLES THEN rest ELSE VAD_WINDOW_SAMPLES
           inserted == microphoneBuffer \o Range(produced + 1, produced + n)
       IN  /\ microphoneBuffer' = EvictOverflow(inserted)
           /\ evicted' = (evicted \/ Len(inserted) > MAX_BUFFER_SAMPLES)
           /\ produced' = produced + n
    /\ packets' = packets + 1
    /\ pace' = IF pace = "seen" /\ spc = "s_loop" THEN "fresh" ELSE "late"
    /\ UNCHANGED <<lifeVars, resampleVars, vadVars, mpc, micBufferMutex, sysVars, spc, segLocals,
                   queued, queueVars>>

\* ProcessingThread asks the classifier about the latest window.
SegClassifyScenario == SegClassify(IsSpeechDetected(VadWindow(micBuffer)))

NextScenario ==
    \/ Start
    \/ ScenarioFeed
    \/ SegSnapshot
    \/ SegClassifyScenario
    \/ SegClear
    \/ SegQueueAudio
    \/ SegNotify
    \/ SegQueueSize

SpecScenario == Init /\ [][NextScenario]_vars

\* ---------------------------------------------------------------------------
\* The scenario with a short first speech run: 200 ms of silence, 150 ms of
\* speech, 300 ms of silence, fed and classified as in the scenario above.
\* ---------------------------------------------------------------------------

ShortRunMs == <<200, 150, 300>>
ShortRunSpeech == <<FALSE, TRUE, FALSE>>

\* The position of the last sample of the k-th part of the stream.
RECURSIVE ShortRunEnd(_)
ShortRunEnd(k) ==
    IF k = 0 THEN 0 ELSE ShortRunEnd(k - 1) + SamplesOf(ShortRunMs[k])

ShortRunLength == ShortRunEnd(Len(ShortRunMs))

\* Whether the sample at position t of the stream is speech.
ShortRunIsSpeech(t) ==
    \E k \in 1..Len(ShortRunMs) :
       /\ ShortRunEnd(k - 1) < t
       /\ t <= ShortRunEnd(k)
       /\ ShortRunSpeech[k]

\* IsSpeechDetected with the classifier matching the audio.
ShortRunIsSpeechDetected(vadWindow) ==
    \E i \in 1..Len(vadWindow) : ShortRunIsSpeech(vadWindow[i])

\* MicrophoneCaptureThread delivers the next window of the stream.
ShortRunFeed ==
    /\ mpc = "m_loop"
    /\ isRunning
    /\ produced < ShortRunLength
    /\ micBufferMutex = "free"
    /\ LET rest == ShortRunLength - produced
           n == IF rest < VAD_WINDOW_SAMPLES THEN rest ELSE VAD_WINDOW_SAMPLES
           inserted == microphoneBuffer \o Range(produced + 1, produced + n)
       IN  /\ microphoneBuffer' = EvictOverflow(inserted)
           /\ evicted' = (evicted \/ Len(inserted) > MAX_BUFFER_SAMPLES)
           /\ produced' = produced + n
    /\ packets' = packets + 1
    /\ pace' = IF pace = "seen" /\ spc = "s_loop" THEN "fresh" ELSE "late"
    /\ UNCHANGED <<lifeVars, resampleVars, vadVars, mpc, micBufferMutex, sysVars, spc, segLocals,
                   queued, queueVars>>

SegClassifyShortRun ==
    SegClassify(ShortRunIsSpeechDetected(VadWindow(micBuffer)))

NextShortRun ==
    \/ Start
    \/ ShortRunFeed
    \/ SegSnapshot
    \/ SegClassifyShortRun
    \/ SegClear
    \/ SegQueueAudio
    \/ SegNotify
    \/ SegQueueSize

SpecShortRun == Init /\ [][NextShortRun]_vars

\* The queue with its threads making progress: the worker takes every step
\* it can (its transcription calls return, and it gets a mutex it keeps
\* asking for), a QueueAudio call that has pushed its job goes on to notify,
\* and a caller inside GetLatestResult leaves it.  The queue is not
\* destroyed, so no stop signal is raised.
NextQueueRunning ==
    \/ Start
    \/ UtteranceReady
    \/ SegQueueAudio
    \/ SegNotify
    \/ SegQueueSize
    \/ Worker
    \/ WorkerSpuriousWake
    \/ Poller
    \/ Caller

SpecQueueFair ==
    /\ Init /\ [][NextQueueRunning]_vars
    /\ SF_vars(Worker) /\ WF_vars(SegNotify) /\ WF_vars(Caller)

\* ---------------------------------------------------------------------------
\* The engine from its construction: Initialize selects the classifier.
\* ---------------------------------------------------------------------------

\* The engine after its constructor (useSimpleVAD(true), no classifier
\* object, no queue and no worker yet).
EngineConstructed ==
    /\ isRunning = FALSE
    /\ epc = "constructed"
    /\ useSimpleVAD = TRUE
    /\ sileroVAD = "null"
    /\ variantsUsed = {}
    /\ state = {}
    /\ mpc = "m_off"
    /\ microphoneBuffer = <<>>
    /\ micBufferMutex = "free"
    /\ produced = 0
    /\ packets = 0
    /\ evicted = FALSE
    /\ pace = "seen"
    /\ systemAudioClient = FALSE
    /\ xpc = "x_off"
    /\ systemAudioBuffer = <<>>
    /\ systemAudioBufferMutex = "free"
    /\ sysProduced = 0
    /\ sysPackets = 0
    /\ spc = "s_off"
    /\ micBuffer = <<>>
    /\ currentState = "SILENCE"
    /\ speechBuffer = <<>>
    /\ silenceDurationSamples = 0
    /\ speechDurationSamples = 0
    /\ runTotal = 0
    /\ runs = <<>>
    /\ queued = <<>>
    /\ audioQueue = <<>>
    /\ audioQueueMutex = "free"
    /\ running = FALSE
    /\ processing = FALSE
    /\ wpc = "w_none"
    /\ audioToProcess = <<>>
    /\ transcription = NoText
    /\ observedStop = FALSE
    /\ queuedAtExit = <<>>
    /\ inWhisper = {}
    /\ dequeued = <<>>
    /\ transcribed = <<>>
    /\ resultsQueue = <<>>
    /\ resultsQueueMutex = "free"
    /\ processedCount = 0
    /\ ppc = "p_idle"
    /\ result = NoText
    /\ latestUserSpeech = NoText
    /\ userSpeech = NoText
    /\ returned = <<>>
    /\ callbacks = <<>>
    /\ cpc = "c_idle"
    /\ cresult = NoText
    /\ dpc = "d_alive"

InitConstructed == EngineConstructed /\ ResampleIdle /\ VadIdle /\ NotStarted

\* AudioCaptureEngine::Initialize: the Whisper model and the queue (with its
\* worker), then the classifier, then the microphone, then the optional
\* system audio.  Each of the four can succeed or fail.
Initialize(whisperOk, vadOk, micOk, sysOk) ==
    /\ epc = "constructed"
    /\ IF ~whisperOk
       THEN /\ epc' = "failed"
            /\ UNCHANGED <<useSimpleVAD, sileroVAD, running, wpc,
                           systemAudioClient>>
       ELSE /\ running' = TRUE
            /\ wpc' = "w_loop"
            /\ sileroVAD' = IF vadOk THEN "loaded" ELSE "failed"
            /\ useSimpleVAD' = ~vadOk
            /\ epc' = IF micOk THEN "initialized" ELSE "failed"
            /\ systemAudioClient' = (micOk /\ sysOk)
    /\ UNCHANGED <<resampleVars, vadVars, threads, calls, isRunning, mpc, micVars, xpc, systemAudioBuffer,
                   systemAudioBufferMutex, sysProduced, sysPackets, spc,
                   segLocals, queued, audioQueue, audioQueueMutex, processing,
                   audioToProcess, transcription, observedStop, queuedAtExit,
                   inWhisper, dequeued, transcribed, rsVars, plVars, dpc>>

NextVad ==
    \/ \E whisperOk, vadOk, micOk, sysOk \in BOOLEAN :
          Initialize(whisperOk, vadOk, micOk, sysOk)
    \/ Start
    \/ StopSignal
    \/ StopJoinMic
    \/ StopJoinSys
    \/ StopJoinProcessing
    \/ \E n \in PacketSizes : AddMicrophoneData_Insert(n)
    \/ AddMicrophoneData_Evict
    \/ MicThreadExit
    \/ SysThreadExit
    \/ Segmenter

SpecVad == InitConstructed /\ [][NextVad]_vars

\* The capture threads, the segmenter and the transcription worker together.
NextEngine ==
    \/ Start
    \/ StopSignal
    \/ StopJoinMic
    \/ StopJoinSys
    \/ StopJoinProcessing
    \/ MicThreadExit
    \/ SysThreadExit
    \/ \E n \in {VAD_WINDOW_SAMPLES, SILENCE_THRESHOLD_SAMPLES} :
          AddMicrophoneData_Insert(n)
    \/ AddMicrophoneData_Evict
    \/ Segmenter
    \/ Worker
    \/ WorkerSpuriousWake
    \/ \E crash \in BOOLEAN : WorkerUseAfterFree(crash)
    \/ EngineDtor
    \/ QueueDtorNotifyAll
    \/ QueueDtorJoin

SpecEngine == Init /\ [][NextEngine]_vars

\* ---------------------------------------------------------------------------
\* AudioCaptureEngine::ResampleAudio
\* ---------------------------------------------------------------------------

\* The sample values, the sample rates and the vectors ResampleAudio is
\* called with.
Amplitudes == {0, 30, 60}
Rates == {SAMPLE_RATE \div 2, SAMPLE_RATE, SAMPLE_RATE + 5, (2 * SAMPLE_RATE) + 5}
Vectors == UNION {[1..n -> Amplitudes] : n \in 0..MaxFrames}

\* outputSize = static_cast<size_t>(input.size() / ratio), with
\* ratio = inputSampleRate / outputSampleRate.
OutputSize(n, inRate, outRate) == (n * outRate) \div inRate

\* index0 = static_cast<size_t>(i * ratio)
Index0(i, inRate, outRate) == (i * inRate) \div outRate

\* A variant without the clamp of the upper index.
Index1Unclamped(index0, n) == index0 + 1

\* index1 = (index0 + 1 < input.size()) ? index0 + 1 : input.size() - 1
Index1(index0, n) == IF index0 + 1 < n THEN index0 + 1 ELSE n - 1

\* input[k] for a zero-based k; a read outside the vector is undefined and
\* yields whatever lies there.
At(in, k, beyond) == IF k \in 0..(Len(in) - 1) THEN in[k + 1] ELSE beyond

\* ResampleAudio; fraction = srcIndex - index0 is
\* ((i * inputSampleRate) % outputSampleRate) / outputSampleRate, and the
\* interpolated sample is rounded down to the amplitude grid.
ResampleAudio(in, inRate, outRate, beyond) ==
    IF inRate = outRate
    THEN in
    ELSE [j \in 1..OutputSize(Len(in), inRate, outRate) |->
            LET i == j - 1
                index0 == Index0(i, inRate, outRate)
                index1 == Index1(index0, Len(in))
                num == (i * inRate) % outRate
            IN  ((At(in, index0, beyond) * (outRate - num))
                  + (At(in, index1, beyond) * num)) \div outRate]

\* A call of ResampleAudio with any vector and any two rates.
InitResample ==
    /\ EngineConstructed
    /\ VadIdle
    /\ NotStarted
    /\ rpc = "r_call"
    /\ input \in Vectors
    /\ inputSampleRate \in Rates
    /\ outputSampleRate \in Rates
    /\ output = <<>>

ResampleCall ==
    /\ rpc = "r_call"
    /\ \E beyond \in Amplitudes :
          output' = ResampleAudio(input, inputSampleRate, outputSampleRate, beyond)
    /\ rpc' = "r_done"
    /\ UNCHANGED <<lifeVars, vadVars, input, inputSampleRate, outputSampleRate, mpc,
                   captureVars, spc, segLocals, queued, queueVars>>

SpecResample == InitResample /\ [][ResampleCall]_vars

\* ---------------------------------------------------------------------------
\* AudioCaptureEngine::IsSpeechDetected (neural variant), SileroVAD::Process
\* and SileroVAD::Reset, called on their own.  Probabilities are in percent.
\* ---------------------------------------------------------------------------

\* const size_t SILERO_CHUNK_SIZE = 512 in IsSpeechDetected.
SILERO_CHUNK_SIZE == 512

\* static constexpr size_t CHUNK_SIZE = 512 in SileroVAD.
CHUNK_SIZE == 512

\* maxProbability > 0.5f
SpeechThreshold == 50

\* The most sub-windows a chunk holds, and the most Process calls looked at.
MaxWindows == 2
MaxProcessCalls == 3

\* The probabilities the network answers.
Probabilities == {0, SpeechThreshold, SpeechThreshold + 1, 100}

\* The sizes of the chunks IsSpeechDetected is called with.
ChunkSizes ==
    {0, 1} \cup UNION {{(k * SILERO_CHUNK_SIZE) - 1, k * SILERO_CHUNK_SIZE,
                        (k * SILERO_CHUNK_SIZE) + 1} : k \in 1..MaxWindows}

\* The lengths Process is called with.
Lengths == {0, CHUNK_SIZE - 1, CHUNK_SIZE, CHUNK_SIZE + 1}

\* (std::max)(a, b)
Max(a, b) == IF a < b THEN b ELSE a

\* if (!session): Initialize has not created the session.
SessionMissing == sileroVAD # "loaded"

\* A variant of Process that copies stateN into state before the outcome of
\* the inference is known.
SileroVADProcessEager(length, answer, inferenceOk) ==
    IF SessionMissing \/ length # CHUNK_SIZE
    THEN [probability |-> 0, state |-> state]
    ELSE [probability |-> IF inferenceOk THEN answer ELSE 0,
          state |-> state \cup {processCalls + 1}]

\* SileroVAD::Process(audioData, length): what it returns and the recurrent
\* state it leaves, when the network answers `answer` or the inference
\* throws (~inferenceOk).
SileroVADProcess(length, answer, inferenceOk) ==
    IF SessionMissing \/ length # CHUNK_SIZE \/ ~inferenceOk
    THEN [probability |-> 0, state |-> state]
    ELSE [probability |-> answer, state |-> state \cup {processCalls + 1}]

\* A variant of the loop condition that also scores a trailing partial window.
HasWindowPartial(i, size) == i < size

\* i + SILERO_CHUNK_SIZE <= audioChunk.size()
HasWindow(i, size) == i + SILERO_CHUNK_SIZE <= size

\* isSpeech = maxProbability > 0.5f
OverThreshold(p) == p > SpeechThreshold

\* A direct call of SileroVAD::Process on the classifier object.
SileroProcessCall(length, answer, inferenceOk) ==
    /\ vpc \in {"v_idle", "v_done"}
    /\ sileroVAD # "null"
    /\ processCalls < MaxProcessCalls
    /\ LET r == SileroVADProcess(length, answer, inferenceOk)
       IN  /\ probability' = r.probability
           /\ state' = r.state
    /\ call' = [op |-> "Process", length |-> length, answer |-> answer,
                inferenceOk |-> inferenceOk]
    /\ processCalls' = processCalls + 1
    /\ vpc' = "v_idle"
    /\ UNCHANGED <<lifeVars, resampleVars, audioChunkSize, offset, maxProbability,
                   detected, scored, mpc, captureVars, spc, micBuffer, currentState,
                   speechBuffer, silenceDurationSamples, speechDurationSamples,
                   runTotal, runs, variantsUsed, queued, queueVars>>

\* SileroVAD::Reset()
SileroReset ==
    /\ vpc \in {"v_idle", "v_done"}
    /\ sileroVAD # "null"
    /\ state' = {}
    /\ call' = [op |-> "Reset"]
    /\ vpc' = "v_idle"
    /\ UNCHANGED <<lifeVars, resampleVars, audioChunkSize, offset, maxProbability,
                   detected, probability, scored, processCalls, mpc, captureVars,
                   spc, micBuffer, currentState, speechBuffer,
                   silenceDurationSamples, speechDurationSamples, runTotal, runs,
                   variantsUsed, queued, queueVars>>

\* IsSpeechDetected(audioChunk) enters its neural branch.
IsSpeechDetectedEnter(size) ==
    /\ vpc \in {"v_idle", "v_done"}
    /\ Variant = "neural"
    /\ processCalls < MaxProcessCalls
    /\ audioChunkSize' = size
    /\ offset' = 0
    /\ maxProbability' = 0
    /\ scored' = <<>>
    /\ vpc' = "v_loop"
    /\ UNCHANGED <<lifeVars, resampleVars, detected, probability, call, processCalls,
                   mpc, captureVars, spc, segLocals, queued, queueVars>>

\* One turn of the loop over the sub-windows, or the threshold test after it.
IsSpeechDetectedLoop(answer, inferenceOk) ==
    /\ vpc = "v_loop"
    /\ IF HasWindow(offset, audioChunkSize)
       THEN LET r == SileroVADProcess(SILERO_CHUNK_SIZE, answer, inferenceOk)
            IN  /\ probability' = r.probability
                /\ state' = r.state
                /\ maxProbability' = Max(maxProbability, r.probability)
                /\ scored' = Append(scored, [offset |-> offset,
                                             length |-> SILERO_CHUNK_SIZE,
                                             probability |-> r.probability])
                /\ call' = [op |-> "Process", length |-> SILERO_CHUNK_SIZE,
                            answer |-> answer, inferenceOk |-> inferenceOk]
                /\ processCalls' = processCalls + 1
                /\ offset' = offset + SILERO_CHUNK_SIZE
                /\ UNCHANGED <<vpc, detected>>
       ELSE /\ detected' = OverThreshold(maxProbability)
            /\ vpc' = "v_done"
            /\ UNCHANGED <<probability, state, maxProbability, scored, call,
                           processCalls, offset>>
    /\ UNCHANGED <<lifeVars, resampleVars, audioChunkSize, mpc, captureVars, spc,
                   micBuffer, currentState, speechBuffer, silenceDurationSamples,
                   speechDurationSamples, runTotal, runs, variantsUsed, queued,
                   queueVars>>

NextSilero ==
    \/ \E whisperOk, vadOk, micOk, sysOk \in BOOLEAN :
          Initialize(whisperOk, vadOk, micOk, sysOk)
    \/ \E length \in Lengths, answer \in Probabilities, inferenceOk \in BOOLEAN :
          SileroProcessCall(length, answer, inferenceOk)
    \/ SileroReset
    \/ \E size \in ChunkSizes : IsSpeechDetectedEnter(size)
    \/ \E answer \in Probabilities, inferenceOk \in BOOLEAN :
          IsSpeechDetectedLoop(answer, inferenceOk)

SpecSilero == InitConstructed /\ [][NextSilero]_vars

\* ---------------------------------------------------------------------------
\* Start and Stop called one after the other, any number of times, while the
\* threads capture and segment (the system audio thread, when it exists,
\* finds no packet).
\* ---------------------------------------------------------------------------
NextLifecycle ==
    \/ Start
    \/ StartRunning
    \/ StartFails
    \/ StartAgain
    \/ StopSignal
    \/ StopJoinMic
    \/ StopJoinSys
    \/ StopJoinProcessing
    \/ StopStopped
    \/ AddMicrophoneData_Insert(SILENCE_THRESHOLD_SAMPLES)
    \/ AddMicrophoneData_Evict
    \/ MicThreadExit
    \/ SysThreadExit
    \/ Segmenter

SpecLifecycle == Init /\ [][NextLifecycle]_vars

NextCapture ==
    \/ Start
    \/ StopSignal
    \/ StopJoinMic
    \/ StopJoinSys
    \/ StopJoinProcessing
    \/ \E n \in PacketSizes : AddMicrophoneData_Insert(n)
    \/ AddMicrophoneData_Evict
    \/ MicThreadExit
    \/ \E n \in SysPacketSizes : AddSystemAudioData_Insert(n)
    \/ AddSystemAudioData_Evict
    \/ SysThreadExit
    \/ Segmenter

SpecCapture == Init /\ [][NextCapture]_vars

\* ---------------------------------------------------------------------------
\* Properties
\* ---------------------------------------------------------------------------

\* The last n elements of s, in order.
LastN(s, n) == [i \in 1..n |-> s[(Len(s) - n) + i]]

\* s holds consecutive samples of the stream.
Contiguous(s) == \A i \in 1..Len(s) : s[i] = (s[1] + i) - 1

\* The segmenter is between the clear of one tick and the speechBuffer
\* update of the next.
BetweenTicks == spc \in {"s_loop", "s_vad", "s_queue", "s_notify", "s_qsize", "s_exited"}

\* C1: with the capture buffer below its bound, every sample appended since
\* the tick that entered Speaking is in the utterance exactly once or still
\* waits in the capture buffer, and every utterance handed to QueueAudio
\* holds consecutive samples: nothing appended between a snapshot and the
\* following clear is discarded.
C1_NoSampleLost ==
    ~evicted =>
        /\ (currentState = "SPEAKING" /\ BetweenTicks /\ micBufferMutex = "free")
              => speechBuffer \o microphoneBuffer = Range(speechBuffer[1], produced)
        /\ \A j \in 1..Len(queued) : Contiguous(queued[j])

\* C2: outside its lock each capture buffer holds at most MAX_BUFFER_SAMPLES
\* samples.
C2_BufferBounded ==
    /\ micBufferMutex = "free" => Len(microphoneBuffer) <= MAX_BUFFER_SAMPLES
    /\ systemAudioBufferMutex = "free" => Len(systemAudioBuffer) <= MAX_BUFFER_SAMPLES

\* Both buffers are full after an append that overflowed them.
C2_Witness ==
    /\ micBufferMutex = "free"
    /\ systemAudioBufferMutex = "free"
    /\ produced > MAX_BUFFER_SAMPLES
    /\ sysProduced > MAX_BUFFER_SAMPLES
    /\ Len(microphoneBuffer) = MAX_BUFFER_SAMPLES
    /\ Len(systemAudioBuffer) = MAX_BUFFER_SAMPLES

\* C3: an append that makes the capture buffer exceed MAX_BUFFER_SAMPLES
\* leaves exactly the most recent MAX_BUFFER_SAMPLES samples of the old
\* contents followed by the appended frame, in their order.
C3_OverflowKeepsNewest ==
    [][(micBufferMutex = "capture" /\ micBufferMutex' = "free"
          /\ Len(microphoneBuffer) > MAX_BUFFER_SAMPLES)
        => microphoneBuffer' = LastN(microphoneBuffer, MAX_BUFFER_SAMPLES)]_vars

\* An overflowing append onto a non-empty buffer has returned, and so has
\* one of a single packet longer than the bound.
C3_Witness ==
    /\ evicted
    /\ micBufferMutex = "free"
    /\ packets >= 2
    /\ microphoneBuffer = Range((produced - MAX_BUFFER_SAMPLES) + 1, produced)

\* C4: QueueAudio never waits for a transcription: the worker holds
\* audioQueueMutex only between taking the lock and taking a job off the
\* pending FIFO, so while it is inside TranscribeAudio a QueueAudio call can
\* take the mutex, push its job, and read the queue size.
C4_EnqueueNeverWaits ==
    /\ audioQueueMutex = "worker" => wpc \in {"w_pred", "w_towait", "w_check"}
    /\ (wpc \notin {"w_pred", "w_towait", "w_check"} /\ spc = "s_queue")
          => ENABLED SegQueueAudio
    /\ (wpc \notin {"w_pred", "w_towait", "w_check"} /\ spc = "s_qsize")
          => ENABLED SegQueueSize

\* A QueueAudio call has pushed its job while the worker is inside
\* TranscribeAudio with an earlier job.
C4_Witness ==
    /\ wpc = "w_inwhisper"
    /\ spc = "s_notify"
    /\ Len(queued) = 2
    /\ audioQueue = <<queued[2]>>

\* C5: at most one transcription call is in flight, and it is the worker's.
C5_OneTranscriptionInFlight ==
    /\ Cardinality(inWhisper) <= 1
    /\ inWhisper \subseteq {"worker"}
    /\ (wpc = "w_inwhisper") <=> (inWhisper = {"worker"})

\* The worker is inside TranscribeAudio while the segmenter finalizes the
\* next utterance and another job is pending.
C5_Witness ==
    /\ inWhisper = {"worker"}
    /\ spc = "s_queue"
    /\ Len(audioQueue) = 1

\* s is an initial part of t.
IsPrefix(s, t) == Len(s) <= Len(t) /\ \A i \in 1..Len(s) : s[i] = t[i]

\* The non-empty texts of the finished transcription calls, in order.
TextsProduced ==
    LET nonEmpty == SelectSeq(transcribed, LAMBDA t : t.text # NoText)
    IN  [i \in 1..Len(nonEmpty) |-> nonEmpty[i].text]

C7_StopLeadsToExit == (dpc = "d_join") ~> (wpc = "w_exit" /\ dpc = "d_done")

\* The results pushed so far: those already returned, then those waiting.
Pushed == returned \o resultsQueue

\* C8: once the worker has read the stop signal it takes no further job off
\* the pending FIFO; when it has exited, every job it had dequeued was
\* transcribed and every non-empty result was pushed, and no job still
\* pending was passed to the transcriber.
C8_NoDequeueAfterStop ==
    /\ [][observedStop' => dequeued' = dequeued]_vars
    /\ [](wpc = "w_exit" =>
            /\ observedStop
            /\ [i \in 1..Len(transcribed) |-> transcribed[i].audio] = dequeued
            /\ Pushed = TextsProduced
            /\ \A i \in 1..Len(audioQueue) :
                  \A j \in 1..Len(transcribed) :
                     audioQueue[i] # transcribed[j].audio)

\* The worker has exited after transcribing a job to a result, leaving a
\* job in the pending FIFO.
C8_Witness ==
    /\ wpc = "w_exit"
    /\ Len(audioQueue) >= 1
    /\ Len(TextsProduced) >= 1
    /\ Pushed = TextsProduced

\* The totals of the ended runs that reach MIN_SPEECH_SAMPLES.
LongRuns == SelectSeq(runs, LAMBDA t : t >= MIN_SPEECH_SAMPLES)

ScenarioDone ==
    /\ produced = ScenarioLength
    /\ spc = "s_loop"
    /\ pace = "seen"

\* n is within one poll tick of samples of the given duration.
About(n, ms) ==
    /\ n + VAD_WINDOW_SAMPLES >= SamplesOf(ms)
    /\ n <= SamplesOf(ms) + VAD_WINDOW_SAMPLES

C11_ShortRunDiscarded == (pace # "late") => (queued = <<>>)

\* C12: an utterance whose every tick was classified as speech and that is
\* finalized by the maximum length is handed to QueueAudio with exactly
\* MAX_SPEECH_SAMPLES samples.
C12_ForcedAtBoundary ==
    (/\ spc = "s_queue"
     /\ silenceDurationSamples = 0
     /\ speechDurationSamples = Len(speechBuffer))
        => Len(speechBuffer) = MAX_SPEECH_SAMPLES

\* C13: the utterance buffer never holds more than MAX_SPEECH_SAMPLES samples.
C13_SpeechBufferBounded == Len(speechBuffer) <= MAX_SPEECH_SAMPLES

\* The segmenter is between the classifier's answer and the clear.
AtClear == spc \in {"s_clear_start", "s_clear_speech", "s_clear_silence"}

\* C14: the utterance is the in-order concatenation of the snapshots of the
\* processed ticks since the one that entered Speaking: the entering tick
\* starts it from its full snapshot, every later tick appends its snapshot,
\* the clear of each of those ticks empties the capture buffer and leaves
\* the utterance as it is unless it discards it, QueueAudio receives the
\* utterance unchanged, and its sample count is the sum of the snapshot
\* lengths.
C14_UtteranceIsConcatenation ==
    /\ [](Len(speechBuffer) = runTotal)
    /\ [][(spc = "s_vad" /\ AtClear') =>
            speechBuffer' = (IF currentState = "SILENCE" THEN <<>> ELSE speechBuffer)
                               \o micBuffer]_vars
    /\ [][(AtClear /\ ~AtClear') =>
            /\ microphoneBuffer' = <<>>
            /\ speechBuffer' = speechBuffer \/ (speechBuffer' = <<>> /\ spc' = "s_loop")]_vars
    /\ [][(spc = "s_queue" /\ spc' = "s_notify") =>
            queued' = Append(queued, speechBuffer)]_vars

\* An utterance started by the snapshot of a speech tick and ended by the
\* snapshot of a later silent tick has been handed to QueueAudio.
C14_Witness ==
    /\ spc = "s_notify"
    /\ queued = <<speechBuffer>>
    /\ speechDurationSamples > 0
    /\ Len(speechBuffer) = speechDurationSamples + silenceDurationSamples
    /\ SilenceEnds(silenceDurationSamples)

\* The jobs of the finished transcription calls, in order.
TranscribedJobs == [i \in 1..Len(transcribed) |-> transcribed[i].audio]

\* C15: no job is passed to the transcriber twice and none is skipped: the
\* jobs taken off the pending FIFO followed by the pending ones are the
\* enqueued jobs in order, the jobs transcribed are the dequeued ones (all
\* but the one in hand), no two transcription calls had the same job, and
\* once the worker has exited every enqueued job was either transcribed
\* once or is still pending.
C15_TranscribedOnce ==
    /\ queued = dequeued \o audioQueue
    /\ IsPrefix(TranscribedJobs, dequeued)
    /\ Len(dequeued) <= Len(transcribed) + 1
    /\ \A i, j \in 1..Len(transcribed) :
          i # j => transcribed[i].audio # transcribed[j].audio
    /\ wpc = "w_exit" => queued = TranscribedJobs \o audioQueue

\* Three jobs were enqueued and each was transcribed; the worker is about
\* to wait for more.
C15_Witness ==
    /\ Len(queued) = MaxJobs
    /\ TranscribedJobs = queued
    /\ wpc = "w_towait"

\* C16: unless the stop signal is raised, every job enqueued by QueueAudio is
\* eventually transcribed: the i-th enqueued job leads to the i-th finished
\* transcription call.
C16_EnqueuedIsTranscribed ==
    \A i \in 1..MaxJobs :
       (Len(queued) >= i) ~> (Len(transcribed) >= i \/ ~running)

\* QueueAudio has pushed a job and its notify_one has just woken the worker,
\* which was blocked in cv.wait; no stop signal was raised.
C16_Witness ==
    /\ running
    /\ spc = "s_qsize"
    /\ wpc = "w_woken"
    /\ audioQueue # <<>>

C18_EmptyResultDropped ==
    /\ [][(wpc = "w_result" /\ transcription = NoText /\ wpc' # wpc) =>
            /\ wpc' = "w_loop"
            /\ UNCHANGED <<resultsQueue, processedCount, audioQueue, dequeued>>]_vars
    /\ [](\A i \in 1..Len(Pushed) : Pushed[i] # NoText)
    /\ [](processedCount + (IF wpc = "w_count" THEN 1 ELSE 0) = Len(Pushed))
    /\ [](Len(Pushed) <= Len(TextsProduced))
    /\ [](\A i, j \in 1..Len(transcribed) :
            (i # j /\ transcribed[i].text = NoText) =>
                transcribed[j].audio # transcribed[i].audio)

\* The first job gave no text and the second one did: one result was
\* pushed and counted, and the worker is back at the loop head.
C18_Witness ==
    /\ Len(transcribed) = 2
    /\ transcribed[1].text = NoText
    /\ transcribed[2].text # NoText
    /\ processedCount = 1
    /\ Pushed = <<transcribed[2].text>>
    /\ wpc = "w_loop"

\* The jobs enqueued after the worker has exited.
LateJobs == SubSeq(queued, Len(queuedAtExit) + 1, Len(queued))

\* C19: QueueAudio is accepted after the stop signal: with the signal raised
\* and the worker outside its critical section the push can be taken, it
\* appends the job to the pending FIFO, and the queue-size read can be taken
\* too; once the worker has exited it stays exited, nothing more is
\* dequeued, transcribed or pushed, pending jobs stay pending, and no job
\* enqueued after the exit has been transcribed or has a result.
C19_LateEnqueueAccepted ==
    /\ [](wpc = "w_exit" => audioQueueMutex = "free")
    /\ []((~running /\ spc = "s_queue" /\ audioQueueMutex = "free")
             => ENABLED SegQueueAudio)
    /\ []((~running /\ spc = "s_qsize" /\ audioQueueMutex = "free")
             => ENABLED SegQueueSize)
    /\ [][(~running /\ spc = "s_queue" /\ spc' = "s_notify") =>
            audioQueue' = Append(audioQueue, speechBuffer)]_vars
    /\ [][wpc = "w_exit" =>
            /\ wpc' = "w_exit"
            /\ UNCHANGED <<dequeued, transcribed>>
            /\ Pushed' = Pushed
            /\ IsPrefix(audioQueue, audioQueue')]_vars
    /\ [](wpc = "w_exit" =>
            \A i \in 1..Len(LateJobs) :
               /\ \A j \in 1..Len(transcribed) : transcribed[j].audio # LateJobs[i]
               /\ \A j \in 1..Len(Pushed) : Pushed[j] # TextOf(LateJobs[i])
               /\ \E j \in 1..Len(audioQueue) : audioQueue[j] = LateJobs[i])

\* The worker has exited on the stop signal, the destructor waits in join,
\* and a QueueAudio call made after the exit has returned: its job is
\* pending.
C19_Witness ==
    /\ wpc = "w_exit"
    /\ dpc = "d_join"
    /\ Len(LateJobs) = 1
    /\ spc = "s_loop"
    /\ audioQueue = LateJobs

\* The classifier variant selected by useSimpleVAD.
Selected == IF useSimpleVAD THEN "energy" ELSE "neural"

\* C20: Initialize selects the classifier once, the neural variant iff the
\* neural classifier loaded its model; afterwards useSimpleVAD and the
\* classifier object never change, and every IsSpeechDetected call has run
\* the selected variant, so all calls ran the same one.
C20_VariantSelectedOnce ==
    /\ [][(epc = "constructed" /\ epc' = "initialized") =>
            useSimpleVAD' = (sileroVAD' # "loaded")]_vars
    /\ [][epc # "constructed" => UNCHANGED <<useSimpleVAD, sileroVAD>>]_vars
    /\ [](variantsUsed \subseteq {Selected})
    /\ [](Cardinality(variantsUsed) <= 1)

\* The neural classifier failed to load in Initialize and the segmenter has
\* since classified a window as speech with the energy variant.
C20_Witness ==
    /\ sileroVAD = "failed"
    /\ useSimpleVAD
    /\ variantsUsed = {"energy"}
    /\ currentState = "SPEAKING"

\* C21: when the window that starts an utterance is scored by the neural
\* classifier, the recurrent state holds nothing of the utterances finalized
\* before (it was reset after the last finalization).
C21_StateResetBetweenUtterances ==
    [][(spc = "s_vad" /\ spc' = "s_clear_start" /\ Variant = "neural") =>
        state \cap (1..Len(runs)) = {}]_vars

\* The worker is inside TranscribeAudio.
InTranscribeAudio == wpc = "w_inwhisper"

\* The segmenter is inside IsSpeechDetected.
InIsSpeechDetected == spc = "s_vad"

\* C22: inside the classifier the segmenter holds no capture-buffer mutex, so
\* a producer that is not already appending can append; inside TranscribeAudio
\* the worker holds neither audioQueueMutex nor resultsQueueMutex, so the
\* segmenter's enqueue can proceed.
C22_NoLockAcrossSlowCall ==
    /\ InIsSpeechDetected => micBufferMutex # "segmenter"
    /\ (InIsSpeechDetected /\ mpc = "m_loop" /\ packets < MaxPackets)
         => ENABLED AddMicrophoneData_Insert(VAD_WINDOW_SAMPLES)
    /\ InTranscribeAudio => (audioQueueMutex = "free" /\ resultsQueueMutex # "worker")
    /\ (InTranscribeAudio /\ spc = "s_queue") => ENABLED SegQueueAudio

\* The segmenter is inside the classifier while the worker is inside
\* TranscribeAudio, and the capture thread is between two appends.
C22_Witness ==
    /\ InIsSpeechDetected
    /\ InTranscribeAudio
    /\ mpc = "m_loop"
    /\ micBufferMutex = "free"

\* The segmenter holds a snapshot it has not used up yet.
SnapshotHeld == spc \in {"s_vad", "s_clear_start", "s_clear_speech", "s_clear_silence"}

\* C23: a snapshot is a copy of the capture buffer as it stood between two
\* complete operations: it is taken with no append in progress, is a
\* contiguous run of at most MAX_BUFFER_SAMPLES samples, and a later append
\* changes the capture buffer but not the snapshot.
C23_SnapshotConsistent ==
    /\ [][(spc = "s_loop" /\ spc' = "s_vad") =>
            (mpc # "m_insert" /\ micBuffer' = microphoneBuffer)]_vars
    /\ [](SnapshotHeld =>
            (Len(micBuffer) <= MAX_BUFFER_SAMPLES /\ Contiguous(micBuffer)))
    /\ [][(SnapshotHeld /\ mpc' # mpc) => micBuffer' = micBuffer]_vars

\* A full capture buffer was snapshotted after an eviction, and an append
\* made since has changed the capture buffer but not the snapshot.
C23_Witness ==
    /\ spc = "s_vad"
    /\ evicted
    /\ Len(micBuffer) = MAX_BUFFER_SAMPLES
    /\ mpc = "m_loop"
    /\ microphoneBuffer # micBuffer

\* The samples of s are in arrival order.
InOrder(s) == \A i \in 1..(Len(s) - 1) : s[i] < s[i + 1]

\* The utterances enqueued so far, followed by the one being collected
\* (between QueueAudio's push and the reset, speechBuffer still holds the
\* utterance just enqueued).
Utterances ==
    queued \o (IF speechBuffer = <<>> \/ spc \in {"s_notify", "s_qsize"}
               THEN <<>>
               ELSE <<speechBuffer>>)

\* C24: the capture buffer is always a contiguous run of the producer's
\* stream; the samples of every utterance are in arrival order, and every
\* utterance ends before the next one begins.
C24_ArrivalOrder ==
    /\ Contiguous(microphoneBuffer)
    /\ \A j \in 1..Len(Utterances) :
          /\ InOrder(Utterances[j])
          /\ j > 1 => Utterances[j - 1][Len(Utterances[j - 1])] < Utterances[j][1]

\* One utterance made of two snapshots has been enqueued and the next one has
\* started, with samples lost to eviction on the way.
C24_Witness ==
    /\ Len(queued) = 1
    /\ Len(Utterances) = 2
    /\ currentState = "SPEAKING"
    /\ evicted
    /\ ~Contiguous(queued[1])

\* C25 as stated: whenever resultsQueueMutex is free, the processed counter
\* equals the number of non-empty transcriptions produced so far.
C25_CountIsProduced ==
    resultsQueueMutex = "free" => processedCount = Len(TextsProduced)

\* C25: the processed counter never decreases and only the worker's count
\* step changes it, by one; whenever resultsQueueMutex is free it equals the
\* number of results pushed so far, those in the results FIFO plus those
\* already returned; it equals the number of non-empty transcriptions
\* produced except while the worker is between the return of TranscribeAudio
\* and the push, when it is one behind at most.
C25_CountIsPushed ==
    /\ [][processedCount' # processedCount =>
            (wpc = "w_count" /\ processedCount' = processedCount + 1)]_vars
    /\ [](resultsQueueMutex = "free" =>
            processedCount = Len(resultsQueue) + Len(returned))
    /\ []((resultsQueueMutex = "free" /\ wpc # "w_result") =>
            processedCount = Len(TextsProduced))
    /\ [](Len(TextsProduced) - processedCount \in {0, 1})

\* With one result returned and one waiting, the worker has a third text in
\* hand that is neither pushed nor counted yet.
C25_Witness ==
    /\ resultsQueueMutex = "free"
    /\ Len(returned) = 1
    /\ Len(resultsQueue) = 1
    /\ processedCount = 2
    /\ wpc = "w_result"
    /\ transcription # NoText

\* The last element of s, or the empty string when there is none.
LastOrEmpty(s) == IF s = <<>> THEN NoText ELSE s[Len(s)]

ProducersStopped ==
    /\ mpc \in {"m_off", "m_exited"}
    /\ xpc \in {"x_off", "x_exited"}
    /\ spc \in {"s_off", "s_exited"}

\* C27: when the worker's stop signal is raised, Stop() has joined the
\* capture threads and the segmenter thread, and no utterance is enqueued
\* from then on.
C27_ProducersStopFirst ==
    /\ [](~running => (ProducersStopped /\ ~isRunning))
    /\ [][~running => queued' = queued]_vars
    /\ [][(running /\ ~running') => epc \in {"initialized", "stopped"}]_vars

\* The engine ran, enqueued an utterance and was stopped; the stop signal of
\* the worker is raised with that job still pending.
C27_Witness ==
    /\ ~running
    /\ spc = "s_exited"
    /\ mpc = "m_exited"
    /\ Len(queued) = 1
    /\ audioQueue # <<>>

\* The smaller and the larger of two numbers.
Lower(x, y) == IF x <= y THEN x ELSE y
Upper(x, y) == IF x <= y THEN y ELSE x

\* C28: with equal rates ResampleAudio returns its input; otherwise the
\* output length is the largest k with k * ratio <= inputLength, and output
\* sample i lies between the source samples at floor(i * ratio) and at
\* min(floor(i * ratio) + 1, inputLength - 1), both of which are indices of
\* the input; an empty input gives an empty output.
C28_ResampleAudio ==
    rpc = "r_done" =>
      LET n == Len(input)
          m == Len(output)
      IN  /\ inputSampleRate = outputSampleRate => output = input
          /\ n = 0 => m = 0
          /\ inputSampleRate # outputSampleRate =>
                /\ m * inputSampleRate <= n * outputSampleRate
                /\ (m + 1) * inputSampleRate > n * outputSampleRate
                /\ \A i \in 0..(m - 1) :
                      LET index0 == Index0(i, inputSampleRate, outputSampleRate)
                          index1 == Index1(index0, n)
                      IN  /\ index0 * outputSampleRate <= i * inputSampleRate
                          /\ (index0 + 1) * outputSampleRate > i * inputSampleRate
                          /\ index0 \in 0..(n - 1)
                          /\ index1 \in 0..(n - 1)
                          /\ index1 = Lower(index0 + 1, n - 1)
                          /\ output[i + 1] >= Lower(input[index0 + 1], input[index1 + 1])
                          /\ output[i + 1] <= Upper(input[index0 + 1], input[index1 + 1])

\* A vector of the greatest length was resampled to a higher rate: the
\* output is longer than the input, its last sample has the upper index
\* clamped, and an earlier one lies strictly between two source samples.
C28_Witness ==
    /\ rpc = "r_done"
    /\ Len(input) = MaxFrames
    /\ inputSampleRate < outputSampleRate
    /\ Len(output) > Len(input)
    /\ Index0(Len(output) - 1, inputSampleRate, outputSampleRate) = Len(input) - 1
    /\ \E j \in 1..Len(output) : output[j] \notin Amplitudes

\* A step of the segmenter thread: no other thread of the engine moves.
SegmenterStep == mpc' = mpc /\ xpc' = xpc /\ epc' = epc

\* What a tick without effect leaves alone.
TickFrame ==
    UNCHANGED <<currentState, speechBuffer, silenceDurationSamples,
                speechDurationSamples, microphoneBuffer, queued, audioQueue>>

SilenceAppended == Len(speechBuffer) - speechDurationSamples

\* C30: in state Speaking a speech tick sets the trailing-silence counter to
\* zero and a no-speech tick adds the snapshot length to it; a no-speech tick
\* finalizes the utterance exactly when the counter, which holds the silence
\* since the last speech tick, has reached SILENCE_THRESHOLD_SAMPLES.
C30_TrailingSilence ==
    /\ [][(spc = "s_vad" /\ spc' = "s_clear_speech") =>
            (currentState = "SPEAKING" /\ silenceDurationSamples' = 0)]_vars
    /\ [][(spc = "s_vad" /\ spc' = "s_clear_silence") =>
            /\ currentState = "SPEAKING"
            /\ silenceDurationSamples' = silenceDurationSamples + Len(micBuffer)]_vars
    /\ [][(spc = "s_clear_silence" /\ spc' # spc) =>
            (runs' # runs <=> silenceDurationSamples >= SILENCE_THRESHOLD_SAMPLES)]_vars
    /\ [](silenceDurationSamples <= SilenceAppended \/ currentState = "SILENCE")
    /\ []((spc = "s_loop" /\ currentState = "SPEAKING") =>
            silenceDurationSamples < SILENCE_THRESHOLD_SAMPLES)

\* The utterance holds at least a threshold's worth of silence, in two
\* stretches separated by speech, and is still being collected.
C30_Witness ==
    /\ spc = "s_loop"
    /\ currentState = "SPEAKING"
    /\ SilenceAppended >= SILENCE_THRESHOLD_SAMPLES
    /\ silenceDurationSamples > 0
    /\ silenceDurationSamples < SILENCE_THRESHOLD_SAMPLES
\* The segmenter is inside transcribe_now: the end-of-utterance test has
\* succeeded and "Reset state" has not run yet.
Finalizing == (AtClear /\ Finalizes) \/ spc \in {"s_queue", "s_notify", "s_qsize"}

\* The segmenter is at the loop head or has returned: the tick is over.
TickOver == spc \in {"s_loop", "s_exited"}

\* C31: whenever the segmenter is in SILENCE at the end of a tick, speechBuffer
\* is empty and silenceDurationSamples is zero; every finalization, by silence
\* or by the maximum length, submitted or discarded, ends its tick in SILENCE
\* with both reset; and QueueAudio is only called inside a finalization that
\* started in SPEAKING.
C31_SilenceIsReset ==
    /\ []((TickOver /\ currentState = "SILENCE")
            => (speechBuffer = <<>> /\ silenceDurationSamples = 0))
    /\ [](Finalizing => currentState = "SPEAKING")
    /\ [][(Finalizing /\ TickOver')
            => (currentState' = "SILENCE" /\ speechBuffer' = <<>>
                /\ silenceDurationSamples' = 0)]_vars
    /\ [][(queued' # queued) => (Finalizing /\ currentState = "SPEAKING")]_vars

\* An utterance has been finalized by the maximum length without any trailing
\* silence, it was submitted, and the segmenter is back in SILENCE.
C31_Witness ==
    /\ Len(queued) = 1
    /\ Len(queued[1]) >= MAX_SPEECH_SAMPLES
    /\ runs = <<Len(queued[1])>>
    /\ spc = "s_loop"
    /\ currentState = "SILENCE"

\* The step that leaves the clear of a finalizing tick.
FinalizeStep == AtClear /\ Finalizes /\ spc' \notin {"s_clear_start", "s_clear_speech", "s_clear_silence"}

\* C32: at finalize the utterance goes to QueueAudio, unchanged, if and only
\* if speechBuffer holds at least MIN_SPEECH_SAMPLES samples; a shorter one is
\* dropped and the tick ends with no call of QueueAudio.
C32_SubmitIffLongEnough ==
    /\ [][FinalizeStep =>
            IF Len(speechBuffer) >= MIN_SPEECH_SAMPLES
            THEN spc' = "s_queue" /\ speechBuffer' = speechBuffer
            ELSE spc' = "s_loop" /\ speechBuffer' = <<>>]_vars
    /\ [][(spc = "s_queue" /\ spc' # "s_queue")
            => queued' = Append(queued, speechBuffer)]_vars
    /\ [][(spc # "s_queue") => (queued' = queued)]_vars

\* The shortest utterance a finalize ever sees (one sample of speech and the
\* trailing silence) has been handed to QueueAudio.
C32_Witness ==
    /\ spc = "s_notify"
    /\ Len(queued) = 1
    /\ Len(queued[1]) = MIN_SPEECH_SAMPLES + 1
    /\ speechDurationSamples < MIN_SPEECH_SAMPLES

\* The silence threshold has been reached on this tick.
FinalizedBySilence == spc = "s_clear_silence" /\ SilenceEnds(silenceDurationSamples)

\* C33: with SILENCE_THRESHOLD_MS = MIN_SPEECH_MS, an utterance finalized by
\* trailing silence holds at least SILENCE_THRESHOLD_SAMPLES samples of
\* retained silence, hence at least MIN_SPEECH_SAMPLES samples, and no
\* finalize ever takes the "Speech too short" branch.
C33_NeverTooShort ==
    /\ [](FinalizedBySilence =>
            /\ silenceDurationSamples <= SilenceAppended
            /\ SilenceAppended >= SILENCE_THRESHOLD_SAMPLES
            /\ Len(speechBuffer) >= MIN_SPEECH_SAMPLES)
    /\ [][FinalizeStep => spc' = "s_queue"]_vars
    /\ [](\A i \in 1..Len(runs) : runs[i] >= MIN_SPEECH_SAMPLES)

\* A finalize by trailing silence of an utterance whose speech ticks alone
\* hold fewer than MIN_SPEECH_SAMPLES samples.
C33_Witness ==
    /\ FinalizedBySilence
    /\ speechDurationSamples < MIN_SPEECH_SAMPLES
    /\ silenceDurationSamples = SILENCE_THRESHOLD_SAMPLES

\* C34: the whisper context is not released while the worker is inside a
\* transcription call.
C34_ContextOutlivesCalls == (whisperContext = "freed") => ~InTranscribeAudio

\* The samples of a and of b are different samples of the stream.
Disjoint(a, b) == \A i \in 1..Len(a) : \A j \in 1..Len(b) : a[i] # b[j]

\* The loop condition fails while an utterance is in progress.
ExitWhileSpeaking == spc = "s_loop" /\ ~isRunning /\ currentState = "SPEAKING"

\* The segmenter has returned with an utterance in progress.
ExitedSpeaking == spc = "s_exited" /\ currentState = "SPEAKING"

\* C35 as stated: from the moment Stop has lowered isRunning while the
\* segmenter is in SPEAKING, nothing is enqueued any more.
C35_NothingAfterStop ==
    [][(~isRunning /\ currentState = "SPEAKING") => (queued' = queued)]_vars

\* C35, for the loop head: when the segmenter finds isRunning false at the
\* loop head while in SPEAKING it returns without finalizing; the utterance,
\* whatever its length, is never enqueued, and none of its samples is left in
\* the capture buffer.  (A tick under way when Stop is called still runs to
\* its end.)
C35_ExitDiscardsUtterance ==
    /\ [][ExitWhileSpeaking =>
            /\ spc' \in {"s_loop", "s_exited"}
            /\ queued' = queued
            /\ speechBuffer' = speechBuffer
            /\ currentState' = currentState]_vars
    /\ [][(spc = "s_exited") => (spc' = "s_exited" /\ queued' = queued)]_vars
    /\ [](ExitedSpeaking =>
            /\ speechBuffer # <<>>
            /\ \A i \in 1..Len(queued) : queued[i] # speechBuffer
            /\ Disjoint(speechBuffer, microphoneBuffer))

\* The segmenter has returned in SPEAKING with an utterance long enough to be
\* submitted, and Stop has returned.
C35_Witness ==
    /\ ExitedSpeaking
    /\ Len(speechBuffer) >= MIN_SPEECH_SAMPLES
    /\ queued = <<>>
    /\ epc = "stopped"

\* The result GetLatestUserSpeech has taken and not yet passed on.
InHand == IF ppc = "p_cache" THEN <<result>> ELSE <<>>

\* The non-empty text the worker has produced and not yet pushed.
Unpushed == IF wpc = "w_result" /\ transcription # NoText THEN <<transcription>> ELSE <<>>

\* C36: with one thread polling GetLatestUserSpeech, the callback is called
\* once for each non-empty result the worker produced and in the order of
\* production (every produced text is either already passed to the callback,
\* in the poller's hand, waiting in the results FIFO or about to be pushed,
\* in that order); it is called only with the non-empty result a poll has
\* just taken, and a poll that finds the FIFO empty calls nothing.
C36_CallbackPerResult ==
    /\ [](callbacks \o InHand \o resultsQueue \o Unpushed = TextsProduced)
    /\ [][(callbacks' # callbacks) =>
            /\ ppc = "p_cache"
            /\ result # NoText
            /\ callbacks' = Append(callbacks, result)]_vars
    /\ [][(ppc = "p_idle" /\ resultsQueue = <<>>) => (callbacks' = callbacks)]_vars

\* Two different results were produced and the callback has been called
\* with each, in that order; a later poll has found the FIFO empty.
C36_Witness ==
    /\ Len(callbacks) = 2
    /\ callbacks[1] # callbacks[2]
    /\ callbacks = TextsProduced
    /\ ppc = "p_idle"
    /\ result = NoText

\* C37: with the neural variant, IsSpeechDetected scores every complete
\* window of SILERO_CHUNK_SIZE samples of the chunk, in order and nothing
\* else, and answers speech if and only if the largest probability Process
\* returned for them is strictly above the threshold; a chunk that holds no
\* complete window is answered as no speech.
C37_MaxOverWindows ==
    (vpc = "v_done") =>
        /\ Len(scored) = audioChunkSize \div SILERO_CHUNK_SIZE
        /\ \A k \in 1..Len(scored) :
              /\ scored[k].offset = (k - 1) * SILERO_CHUNK_SIZE
              /\ scored[k].length = SILERO_CHUNK_SIZE
              /\ scored[k].offset + scored[k].length <= audioChunkSize
        /\ detected <=> (\E k \in 1..Len(scored) :
                            scored[k].probability > SpeechThreshold)
        /\ (audioChunkSize < SILERO_CHUNK_SIZE) => ~detected

\* A chunk of two complete windows and one sample more: the first window was
\* scored above the threshold, the second exactly at it, and the answer is
\* speech.
C37_Witness ==
    /\ vpc = "v_done"
    /\ audioChunkSize = (2 * SILERO_CHUNK_SIZE) + 1
    /\ Len(scored) = 2
    /\ scored[1].probability = SpeechThreshold + 1
    /\ scored[2].probability = SpeechThreshold
    /\ detected

\* The last call on the classifier was a Process call that cannot succeed.
ProcessFails ==
    SessionMissing \/ call.length # CHUNK_SIZE \/ ~call.inferenceOk

\* C38: Process returns 0 and leaves the recurrent state as it was when the
\* session is missing, when length is not CHUNK_SIZE, or when the inference
\* fails; otherwise it returns the network's answer and replaces the state;
\* the state changes in no other way, except that Reset zeroes it.
C38_ProcessFailsSafe ==
    /\ [][(processCalls' # processCalls) =>
            /\ call'.op = "Process"
            /\ IF ProcessFails'
               THEN probability' = 0 /\ state' = state
               ELSE probability' = call'.answer /\ state' # state]_vars
    /\ [][(call' # call /\ call'.op = "Reset") => state' = {}]_vars
    /\ [][(state' # state) =>
            \/ processCalls' # processCalls /\ ~ProcessFails'
            \/ call'.op = "Reset" /\ state' = {}]_vars

\* After a successful call, a call with one sample too many has returned 0
\* and the state of the successful call is still there.
C38_Witness ==
    /\ call.op = "Process"
    /\ call.length = CHUNK_SIZE + 1
    /\ call.inferenceOk
    /\ call.answer = 100
    /\ ~SessionMissing
    /\ probability = 0
    /\ state = {1}
    /\ processCalls = 2

\* The call that has just been made.
LastCall == calls[Len(calls)]

\* C39: Start on a running engine returns true and creates no thread, Stop
\* on an engine that is not running changes nothing, there is never more
\* than one segmenter thread and one capture thread per source, and when no
\* Start is in effect (before the first Start, after a failed one, after
\* Stop has returned) no thread is alive.
C39_StartStopIdempotent ==
    /\ [](threads.mic <= 1 /\ threads.sys <= 1 /\ threads.seg <= 1)
    /\ []((epc \in {"initialized", "stopped"}) =>
            (~isRunning /\ threads = NoThreads))
    /\ [][(calls' # calls /\ isRunning /\ LastCall'.op = "Start") =>
            /\ LastCall'.result = "true"
            /\ UNCHANGED <<threads, isRunning, epc, mpc, xpc, spc>>]_vars
    /\ [][(calls' # calls /\ ~isRunning /\ LastCall'.op = "Stop") =>
            UNCHANGED <<threads, isRunning, epc, mpc, xpc, spc>>]_vars

\* Start, Start again while running, Stop, then a new Start: the engine runs
\* with one thread of each kind.
C39_Witness ==
    /\ Len(calls) = 4
    /\ calls[1].op = "Start" /\ calls[2].op = "Start"
    /\ calls[3].op = "Stop"
    /\ calls[4] = [op |-> "Start", result |-> "true"]
    /\ epc = "started"
    /\ threads.mic = 1 /\ threads.seg = 1

====
